---- MODULE Spec2Model ----
(***************************************************************************)
(* The warpd relay of spolu/warp: the dispatcher (daemon/srv.go), the      *)
(* per-warp state machine (daemon/warp.go) and the relay session           *)
(* (daemon/session.go), as a state machine of the goroutines that serve    *)
(* each accepted connection.                                               *)
(*                                                                         *)
(* Every accepted connection runs Srv.handle in its own goroutine (the     *)
(* "main" task, program counter pc).  A host session also runs the update  *)
(* consumer (upc), the host data consumer (hpc) and the host data producer *)
(* (always ready, see HostSendData); a shell client session also runs the  *)
(* client data consumer (dpc).  A step is one critical section of a mutex, *)
(* or one write on a sub-stream, together with the task-local code around  *)
(* it.                                                                     *)
(***************************************************************************)
EXTENDS Integers, Sequences, FiniteSets, TLC

\* ------------------------------------------------------------------ bounds
\* What the relay reads from its connections after their hellos, over all
\* sessions: host updates decoded, chunks read from a client's dataC, and
\* reads that fail (a connection lost or closed by its peer).
MaxEvents == 2

\* ------------------------------------------------------- protocol constants
ModeShellRead == 1
ModeShellWrite == 2

\* m & b # 0, for a single-bit b.
HasMode(m, b) == (m \div b) % 2 = 1
\* a | b on the two mode bits.
ModeOr(a, b) ==
    (IF HasMode(a, 1) \/ HasMode(b, 1) THEN 1 ELSE 0)
  + (IF HasMode(a, 2) \/ HasMode(b, 2) THEN 2 ELSE 0)
DefaultHostMode == ModeOr(ModeShellRead, ModeShellWrite)

SsTpHost == "host"
SsTpShellClient == "shell"

\* ------------------------------------------------------------- connections
Nil == "nil"
Hosts == {"h1", "h2"}
Clients == {"c1", "c2"}
Conn == Hosts \cup Clients
\* The single warp token every hello of the model names.
WarpToken == "demo"
WarpTokens == {WarpToken}
HostUser == "uh"
Users == {"ua", "ub", HostUser}

\* The hello of each connection (warp.SessionHello): both host connections are
\* the same user opening the warp with two sessions; c1 is user ua; c2 is drawn
\* in Init from: the same session token as c1 (a session conflict), a second
\* session of ua, another user, or the host's own user.
HostHelloMsg(h) ==
    [type |-> SsTpHost, warp |-> WarpToken,
     From |-> [Token |-> IF h = "h1" THEN "s1" ELSE "s2", User |-> HostUser,
               Secret |-> "k"]]
ClientHelloC1 ==
    [type |-> SsTpShellClient, warp |-> WarpToken,
     From |-> [Token |-> "t1", User |-> "ua", Secret |-> "k"]]
ClientHelloC2 ==
    { [type |-> SsTpShellClient, warp |-> WarpToken,
       From |-> [Token |-> t, User |-> u, Secret |-> "k"]] :
         <<u, t>> \in {<<"ua", "t1">>, <<"ua", "t2">>, <<"ub", "t1">>,
                        <<HostUser, "t1">>} }
\* The window size of the initial HostUpdate of each host connection.
InitialSize(h) == IF h = "h1" THEN 1 ELSE 2

\* The HostUpdates a host may send after the initial one (warp.HostUpdate):
\* well-formed ones, and ones with a wrong Warp or a wrong From.  The latter
\* carry a window size (BadSize) and a mode (write without read) that no
\* well-formed update of the model carries, so that what they would change is
\* told apart.
BadSize == 2 + 1
BadModes == [u \in {"ua"} |-> ModeShellWrite]
ModesSent ==
    { [u \in {} |-> 0],
      [u \in {"ua"} |-> 3],
      [u \in {"ua"} |-> 1],
      [u \in {"ua", "ub"} |-> IF u = "ua" THEN 1 ELSE 3],
      [u \in {HostUser} |-> 3] }
GoodUpdates(h) ==
    { [Warp |-> WarpToken, From |-> HostHelloMsg(h).From, WindowSize |-> sz,
       Modes |-> m] : sz \in {2}, m \in ModesSent }
BadUpdates(h) ==
    { [Warp |-> "other", From |-> HostHelloMsg(h).From,
       WindowSize |-> BadSize, Modes |-> BadModes],
      [Warp |-> WarpToken,
       From |-> [HostHelloMsg(h).From EXCEPT !.Secret = "x"],
       WindowSize |-> BadSize, Modes |-> BadModes],
      [Warp |-> WarpToken,
       From |-> [HostHelloMsg(h).From EXCEPT !.Token = "sx"],
       WindowSize |-> BadSize, Modes |-> BadModes],
      [Warp |-> WarpToken,
       From |-> [HostHelloMsg(h).From EXCEPT !.User = "ua"],
       WindowSize |-> BadSize, Modes |-> BadModes] }
HostUpdates(h) == GoodUpdates(h) \cup BadUpdates(h)

\* ------------------------------------------------------------------- maps
EmptyMap == [x \in {} |-> Nil]
Put(f, k, v) == [x \in DOMAIN f \cup {k} |-> IF x = k THEN v ELSE f[x]]
Del(f, k) == [x \in DOMAIN f \ {k} |-> f[x]]
Range(f) == { f[x] : x \in DOMAIN f }
\* The stamp of a stateC nothing was written to.
NoSnapshot == 0 - 1
\* hostSet of a user record no host update has changed.
NoMode == 0 - 1

VARIABLES
    hello,     \* Conn -> the SessionHello the connection sends
    warps,     \* Srv.warps: warp token -> the warp mapped (its host conn) or Nil
    warp,      \* the Warp records, by the host connection that created them
    ss,        \* Session.tornDown and the session context, by connection
    errorC,    \* the Error codes written to each session's errorC
    stateC,    \* the last snapshot written to each session's stateC, by its
               \* version stamp
    hostDataC, \* the chunks written to each host session's dataC
    pc,        \* main task of each connection (Srv.handle)
    wref,      \* client main task: the *Warp it was handed (s.warps[ss.warp])
    st,        \* main task local: st of updateHost / updateShellClients
    sl,        \* main task local: sessions of updateShellClients
    upc,       \* update consumer of each host session
    ust,       \* update consumer local: st of updateShellClients
    usl,       \* update consumer local: sessions of updateShellClients
    uver,      \* history: the stamp the warp got from the update the update
               \* consumer is broadcasting
    hpc,       \* host data consumer of each host session
    dpc,       \* client data consumer of each client session
    dmode,     \* client data consumer local: mode of rcvClientData
    panicked,  \* the daemon died on a nil dereference
    nEvents,   \* updates, chunks and failed reads so far
    hostSet    \* history: per warp and client user, the mode the last accepted
               \* host update gave the current user record (NoMode: none
               \* since the record was created)

\* The endpoints: the state of `warp open` (client/command/connect.go) and of
\* the sessions it opens (client/session.go, client/cli.go).
VARIABLES
    shadow,    \* Session.state: the WarpState of the endpoint session that made
               \* each connection
    es,        \* endpoint Session of each host connection: tornDown, its
               \* context, whether its hello and initial update were sent,
               \* how many times TearDown called cancel and closed the mux,
               \* and (history) whether a command gave ShellWrite on it
    link,      \* the transport of each host connection: "none" before the
               \* dial, "up", "down"
    updateC,   \* the HostUpdates written on each host session's updateC that
               \* the relay has not decoded, the initial one apart
    dataW,     \* the chunks of shell output written to each session's dataC
    sver,      \* the stamp of the last snapshot each endpoint decoded
    rootDone,  \* Open.Execute: the root context is cancelled
    userErr,   \* Open.Execute: the error taken from errC, or Nil
    css,       \* Open.ss and the session of the local command server: the
               \* attached session, or Nil
    inited,    \* Open.inited: the local command server was let start
    first,     \* ConnLoop local
    cur,       \* the connection ConnLoop is at
    cpc,       \* the ConnLoop goroutine (ConnLoop, ManageSession)
    epc,       \* error listener of each session
    spc,       \* state loop of each session
    fpc,       \* dataC to pty multiplexer of each session
    wpc,       \* SIGWINCH goroutine
    apc,       \* local command server: the command being executed
    ptyIn,     \* the chunks of the sessions' dataC written to the pty
    cmd,       \* local command server: the warp.Command Srv.handle decoded
    res        \* local command server: the warp.CommandResult of the command

relayVars == <<hello, warps, warp, ss, errorC, stateC, hostDataC, pc, wref, st,
               sl, upc, ust, usl, uver, hpc, dpc, dmode, panicked, nEvents,
               hostSet>>
\* The relay's fan-out of the host's output to the clients (Warp.rcvHostData).
VARIABLES
    clientDataC, \* the chunks of host output written to each client session's
                 \* dataC, by their number
    hostOut,     \* the number of chunks read from each host session's dataC
    clink,       \* the transport of each client connection: "up", "down"
    hsl,         \* host data consumer local: the sessions of rcvHostData
                 \* not written to yet
    ppc,         \* host data producer of each host session
    snapQ,       \* the snapshots written to each host session's stateC that
                 \* its endpoint has not decoded, in the order written
    smx,         \* endpoint Session.mutex of each host connection: "free", or
                 \* "write" while WriteDataC holds it
    dwin         \* the send window of each host session's dataC is used up
                 \* (the relay has not read what was written)

fanVars == <<clientDataC, hostOut, clink, hsl, ppc, snapQ, smx, dwin>>
supVars == <<es, link, updateC, dataW, sver, rootDone, userErr, css, inited,
             first, cur, cpc, epc, spc, fpc, wpc, apc, ptyIn, cmd, res>>
openVars == <<shadow, supVars, fanVars>>
vars == <<relayVars, openVars>>

\* ---------------------------------------------------------------- session
\* Session.TearDown: idempotent; marks the session and cancels its context
\* (the multiplexer is closed 500ms later, which the read failures model).
TearDown(sess, c) ==
    IF sess[c].tornDown THEN sess
    ELSE [sess EXCEPT ![c] = [tornDown |-> TRUE, ctxDone |-> TRUE]]

\* ss.cancel() on each session of S.
Cancel(sess, S) ==
    [c \in Conn |-> IF c \in S THEN [sess[c] EXCEPT !.ctxDone = TRUE] ELSE sess[c]]

\* Session.SendError: nothing is written once the session is torn down.
SendError(errs, sess, c, code) ==
    IF sess[c].tornDown THEN errs
    ELSE [errs EXCEPT ![c] = Append(@, code)]

\* ------------------------------------------------------------------- warp
\* The host's user record: HostState{UserState{token, mode, sessions}, session}.
HostRecord(h) ==
    [token |-> hello[h].From.User, mode |-> DefaultHostMode,
     sessions |-> EmptyMap, session |-> h]

\* The Warp record Srv.handleHost creates, seeded with the window size of the
\* initial host update.  ver is a history stamp: the number of changes made to
\* the record under its lock.
NewWarp(h) ==
    [token |-> hello[h].warp, windowSize |-> InitialSize(h),
     host |-> HostRecord(h), shellClients |-> EmptyMap, ver |-> 0]

\* UserState.User
UserStateUser(u) ==
    [Token |-> u.token, Mode |-> u.mode, Hosting |-> FALSE]

\* HostState.User
HostStateUser(h) ==
    [Token |-> h.token, Mode |-> h.mode, Hosting |-> TRUE]

\* Warp.State: the snapshot of the warp, taken under the warp lock.  The host
\* is entered first under its user token, then every shell client user.
State(w) ==
    [Warp |-> w.token, WindowSize |-> w.windowSize,
     Users |-> [u \in {w.host.token} \cup DOMAIN w.shellClients |->
                  IF u \in DOMAIN w.shellClients
                  THEN UserStateUser(w.shellClients[u])
                  ELSE HostStateUser(w.host)],
     ver |-> w.ver]

\* Warp.Sessions: every shell client session, the host user's included, taken
\* under the warp lock.
Sessions(w) ==
    UNION { Range(w.shellClients[u].sessions) : u \in DOMAIN w.shellClients }
      \cup Range(w.host.sessions)

\* A faulty Encode: nothing is written.
EncodeNothing(sc, S, snap) == sc
\* stateW.Encode(snap) on each session of S.
Encode(sc, S, snap) ==
    [c \in Conn |->
       IF c \in S
       THEN snap.ver
       ELSE sc[c]]

\* A faulty NewUserState: the user joins with the host's mode.
NewUserStateReadWrite(c) ==
    [token |-> hello[c].From.User, mode |-> DefaultHostMode,
     sessions |-> EmptyMap]
\* The user record Warp.handleClient creates for a user it does not know.
NewUserState(c) ==
    [token |-> hello[c].From.User, mode |-> ModeShellRead,
     sessions |-> EmptyMap]

\* A faulty AddClient: the host's user is not told apart from the others.
AddClientAsShellClient(w, c) ==
    LET user == hello[c].From.User
        tok  == hello[c].From.Token
        rec  == IF user \in DOMAIN w.shellClients
                THEN w.shellClients[user]
                ELSE NewUserState(c)
    IN  [w EXCEPT
           !.shellClients =
              Put(@, user, [rec EXCEPT !.sessions = Put(@, tok, c)]),
           !.ver = @ + 1]
\* Warp.handleClient, "Add the client": the warp after the session is added,
\* under the warp lock.
AddClient(w, c) ==
    LET user == hello[c].From.User
        tok  == hello[c].From.Token
    IN  IF user = w.host.token
        THEN [w EXCEPT !.host.sessions = Put(@, tok, c), !.ver = @ + 1]
        ELSE LET rec == IF user \in DOMAIN w.shellClients
                        THEN w.shellClients[user]
                        ELSE NewUserState(c)
             IN  [w EXCEPT
                    !.shellClients =
                       Put(@, user, [rec EXCEPT !.sessions = Put(@, tok, c)]),
                    !.ver = @ + 1]

\* The sessions AddClient cancels: an older session of the same user with the
\* same session token.
Conflicting(w, c) ==
    LET user == hello[c].From.User
        tok  == hello[c].From.Token
        tbl  == IF user = w.host.token THEN w.host.sessions
                ELSE IF user \in DOMAIN w.shellClients
                     THEN w.shellClients[user].sessions
                     ELSE EmptyMap
    IN  IF tok \in DOMAIN tbl THEN {tbl[tok]} ELSE {}

\* Warp.handleClient, "Clean-up client": TRUE when the clean-up dereferences a
\* user record that is no longer in the table (a nil *UserState).
CleanupPanics(w, c) ==
    /\ hello[c].From.User # w.host.token
    /\ hello[c].From.User \notin DOMAIN w.shellClients

\* A faulty RemoveClient: the user record is kept when its table is empty.
RemoveClientKeepsUser(w, c) ==
    LET user == hello[c].From.User
        tok  == hello[c].From.Token
    IN  IF user = w.host.token
        THEN [w EXCEPT !.host.sessions = Del(@, tok), !.ver = @ + 1]
        ELSE [w EXCEPT !.shellClients[user].sessions = Del(@, tok),
                       !.ver = @ + 1]
\* Warp.handleClient, "Clean-up client": the warp after the session token is
\* deleted from its user's table, and the user with it when the table is empty.
RemoveClient(w, c) ==
    LET user == hello[c].From.User
        tok  == hello[c].From.Token
    IN  IF user = w.host.token
        THEN [w EXCEPT !.host.sessions = Del(@, tok), !.ver = @ + 1]
        ELSE LET left == Del(w.shellClients[user].sessions, tok)
             IN  IF left = EmptyMap
                 THEN [w EXCEPT !.shellClients = Del(@, user), !.ver = @ + 1]
                 ELSE [w EXCEPT !.shellClients[user].sessions = left,
                                !.ver = @ + 1]

\* ------------------------------------------------------------------- init
\* The hello of a connection that is never made.
NoHello ==
    [type |-> "none", warp |-> WarpToken,
     From |-> [Token |-> "", User |-> "", Secret |-> ""]]

\* The connections the relay accepts in a run, with their hellos (NoHello: the
\* connection is never made): two hosts and a client, or a host and two
\* clients.
Hellos ==
    { [c \in Conn |->
         IF c \in Hosts THEN HostHelloMsg(c)
         ELSE IF c = "c1" THEN ClientHelloC1 ELSE NoHello] }
      \cup
    { [c \in Conn |->
         IF c = "h1" THEN HostHelloMsg(c)
         ELSE IF c = "h2" THEN NoHello
         ELSE IF c = "c1" THEN ClientHelloC1 ELSE h2] :
      h2 \in ClientHelloC2 }

\* A host and a client.
HellosBroadcast ==
    { [c \in Conn |->
         IF c = "h1" THEN HostHelloMsg(c)
         ELSE IF c = "c1" THEN ClientHelloC1 ELSE NoHello] }

\* The relay as NewSrv leaves it, before the connections of H are made.
RelayInit(H) ==
    /\ hello \in H
    /\ warps = [t \in WarpTokens |-> Nil]
    /\ warp = EmptyMap
    /\ ss = [c \in Conn |-> [tornDown |-> FALSE, ctxDone |-> FALSE]]
    /\ errorC = [c \in Conn |-> <<>>]
    /\ stateC = [c \in Conn |-> NoSnapshot]
    /\ hostDataC = [h \in Hosts |-> <<>>]
    /\ pc = [c \in Conn |-> "new"]
    /\ wref = [c \in Clients |-> Nil]
    /\ st = [c \in Conn |-> Nil]
    /\ sl = [c \in Conn |-> {}]
    /\ upc = [h \in Hosts |-> "off"]
    /\ ust = [h \in Hosts |-> Nil]
    /\ usl = [h \in Hosts |-> {}]
    /\ uver = [h \in Hosts |-> 0]
    /\ hpc = [h \in Hosts |-> "off"]
    /\ dpc = [c \in Clients |-> "off"]
    /\ dmode = [c \in Clients |-> 0]
    /\ panicked = FALSE
    /\ nEvents = 0
    /\ hostSet = [h \in Hosts |-> [u \in Users |-> NoMode]]
    /\ clientDataC = [c \in Clients |-> <<>>]
    /\ hostOut = [h \in Hosts |-> 0]
    /\ clink = [c \in Clients |-> "up"]
    /\ hsl = [h \in Hosts |-> {}]
    /\ ppc = [h \in Hosts |-> "off"]
    /\ snapQ = [h \in Hosts |-> <<>>]
    /\ smx = [h \in Hosts |-> "free"]
    /\ dwin = [h \in Hosts |-> FALSE]

\* The WarpState of a session that was not opened.
NoWarpState == [token |-> "", windowSize |-> 0, users |-> EmptyMap]

\* No command is being handled (warp.Command).
NoCommand == [type |-> "none", args |-> <<>>]
\* The result of no command yet (warp.CommandResult).
NoResult ==
    [code |-> "", disconnected |-> FALSE,
     state |-> [Warp |-> "", WindowSize |-> 0, Users |-> EmptyMap]]

\* The endpoint Session NewSession returns.
NewEndpoint ==
    [tornDown |-> FALSE, ctxDone |-> FALSE, greeted |-> FALSE,
     granted |-> FALSE, cancels |-> 0, closes |-> 0]

\* `warp open` is not run.
SupOff ==
    /\ es = [h \in Hosts |-> NewEndpoint]
    /\ link = [h \in Hosts |-> "none"]
    /\ updateC = [h \in Hosts |-> <<>>]
    /\ dataW = [h \in Hosts |-> 0]
    /\ sver = [h \in Hosts |-> NoSnapshot]
    /\ rootDone = FALSE
    /\ userErr = Nil
    /\ css = Nil
    /\ inited = FALSE
    /\ first = TRUE
    /\ cur = "h1"
    /\ cpc = "off"
    /\ epc = [h \in Hosts |-> "off"]
    /\ spc = [h \in Hosts |-> "off"]
    /\ fpc = [h \in Hosts |-> "off"]
    /\ wpc = "off"
    /\ apc = "off"
    /\ ptyIn = 0
    /\ cmd = NoCommand
    /\ res = NoResult

\* No endpoint is followed: the relay is looked at from its own side only.
OpenOff ==
    /\ shadow = [c \in Conn |-> NoWarpState]
    /\ SupOff

\* The relay and the connections of H, the endpoints not being followed.
InitWith(H) == RelayInit(H) /\ OpenOff

Init == InitWith(Hellos)

InitBroadcast == InitWith(HellosBroadcast)

\* ---------------------------------------------------------------- helpers
Running == ~panicked

\* The warp a main task works on: the one a host created, the one a client
\* was handed.
WarpOf(c) == IF c \in Hosts THEN c ELSE wref[c]

\* The statement after each statement of updateHost; updateShellClients, as
\* run by Warp.handleHost (h), on a join (j) and on a leave (l).
NextPc(p) ==
    CASE p = "h1" -> "h2" [] p = "h2" -> "h3" [] p = "h3" -> "h4"
      [] p = "h4" -> "h5" [] p = "h5" -> "wait"
      [] p = "j1" -> "j2" [] p = "j2" -> "j3" [] p = "j3" -> "j4"
      [] p = "j4" -> "j5" [] p = "j5" -> "wait"
      [] p = "l1" -> "l2" [] p = "l2" -> "l3" [] p = "l3" -> "l4"
      [] p = "l4" -> "l5" [] p = "l5" -> "teardown"

\* ------------------------------------------------------------- dispatcher
\* Faulty lookups: one that never finds the token mapped, one that always
\* does.
MappedNever(c) == FALSE
MappedAlways(c) == TRUE
\* _, ok := s.warps[ss.warp], under the dispatcher lock.
Mapped(c) == warps[hello[c].warp] # Nil

\* Srv.handle, Srv.handleHost: a host hello and its initial update are read;
\* under the dispatcher lock the token is looked up and, when it is free, the
\* warp is created and mapped.  Warp.handleHost then starts the three host
\* tasks.
SrvHandleHost(h) ==
    /\ Running
    /\ pc[h] = "new"
    /\ hello[h].type = SsTpHost
    /\ IF Mapped(h)
       THEN /\ pc' = [pc EXCEPT ![h] = "in_use"]
            /\ UNCHANGED <<warps, warp, upc, hpc>>
       ELSE /\ warps' = [warps EXCEPT ![hello[h].warp] = h]
            /\ warp' = Put(warp, h, NewWarp(h))
            /\ upc' = [upc EXCEPT ![h] = "decode"]
            /\ hpc' = [hpc EXCEPT ![h] = "read"]
            /\ pc' = [pc EXCEPT ![h] = "h1"]
    /\ UNCHANGED <<hello, ss, errorC, stateC, hostDataC, wref, st, sl, ust, usl, uver,
                   dpc, dmode, panicked, nEvents, hostSet>>
    /\ UNCHANGED openVars

\* A faulty SrvRejectHost: the rejected handler runs the "Clean-up warp" of
\* the handler that owns the token.
SrvRejectHostCleansUp(h) ==
    /\ Running
    /\ pc[h] = "in_use"
    /\ errorC' = SendError(errorC, ss, h, "warp_in_use")
    /\ ss' = TearDown(ss, h)
    /\ warps' = [warps EXCEPT ![hello[h].warp] = Nil]
    /\ pc' = [pc EXCEPT ![h] = "done"]
    /\ UNCHANGED <<hello, warp, stateC, hostDataC, wref, st, sl, upc, ust, usl,
                   uver, hpc, dpc, dmode, panicked, nEvents, hostSet>>
    /\ UNCHANGED openVars
\* Srv.handleHost, the token is mapped: warp_in_use is sent, the handler
\* returns and Srv.handle tears the session down.
SrvRejectHost(h) ==
    /\ Running
    /\ pc[h] = "in_use"
    /\ errorC' = SendError(errorC, ss, h, "warp_in_use")
    /\ ss' = TearDown(ss, h)
    /\ pc' = [pc EXCEPT ![h] = "done"]
    /\ UNCHANGED <<hello, warps, warp, stateC, hostDataC, wref, st, sl, upc,
                   ust, usl, uver, hpc, dpc, dmode, panicked, nEvents, hostSet>>
    /\ UNCHANGED openVars

\* Srv.handleShellClient: under the dispatcher lock, is the token mapped?
SrvHandleShellClient(c) ==
    /\ Running
    /\ pc[c] = "new"
    /\ hello[c].type = SsTpShellClient
    /\ pc' = [pc EXCEPT ![c] =
                IF Mapped(c) THEN "checked" ELSE "unknown"]
    /\ UNCHANGED <<hello, warps, warp, ss, errorC, stateC, hostDataC, wref, st,
                   sl, upc, ust, usl, uver, hpc, dpc, dmode, panicked, nEvents, hostSet>>
    /\ UNCHANGED openVars

\* Srv.handleShellClient, the token is not mapped: warp_unknown is sent, the
\* handler returns and Srv.handle tears the session down.
SrvRejectShellClient(c) ==
    /\ Running
    /\ pc[c] = "unknown"
    /\ errorC' = SendError(errorC, ss, c, "warp_unknown")
    /\ ss' = TearDown(ss, c)
    /\ pc' = [pc EXCEPT ![c] = "done"]
    /\ UNCHANGED <<hello, warps, warp, stateC, hostDataC, wref, st, sl, upc,
                   ust, usl, uver, hpc, dpc, dmode, panicked, nEvents, hostSet>>
    /\ UNCHANGED openVars

\* Srv.handleShellClient, s.warps[ss.warp].handleShellClient: the map is read
\* again, without the lock; a nil *Warp panics at its first dereference.
\* Warp.handleClient then adds the session under the warp lock, cancelling a
\* session it replaces, and starts the client data consumer.
WarpHandleClient(c) ==
    /\ Running
    /\ pc[c] = "checked"
    /\ LET h == warps[hello[c].warp] IN
       IF h = Nil
       THEN /\ panicked' = TRUE
            /\ UNCHANGED <<warp, ss, pc, wref, dpc, hostSet>>
       ELSE /\ panicked' = panicked
            /\ wref' = [wref EXCEPT ![c] = h]
            /\ ss' = Cancel(ss, Conflicting(warp[h], c))
            /\ warp' = [warp EXCEPT ![h] = AddClient(warp[h], c)]
            /\ hostSet' =
                 IF hello[c].From.User \in DOMAIN warp'[h].shellClients
                      \ DOMAIN warp[h].shellClients
                 THEN [hostSet EXCEPT ![h][hello[c].From.User] = NoMode]
                 ELSE hostSet
            /\ dpc' = [dpc EXCEPT ![c] = "read"]
            /\ pc' = [pc EXCEPT ![c] = "j1"]
    /\ UNCHANGED <<hello, warps, errorC, stateC, hostDataC, st, sl, upc, ust,
                   usl, uver, hpc, dmode, nEvents>>
    /\ UNCHANGED openVars

\* Srv.handle, the deferred ss.TearDown() once the handler has returned.
SrvTearDown(c) ==
    /\ Running
    /\ pc[c] = "teardown"
    /\ ss' = TearDown(ss, c)
    /\ pc' = [pc EXCEPT ![c] = "done"]
    /\ UNCHANGED <<hello, warps, warp, errorC, stateC, hostDataC, wref, st, sl,
                   upc, ust, usl, uver, hpc, dpc, dmode, panicked, nEvents, hostSet>>
    /\ UNCHANGED openVars

\* ---------------------------------------- updateHost; updateShellClients
\* Warp.updateHost: st := w.State(ctx).
UpdateHostState(c) ==
    /\ Running
    /\ pc[c] \in {"h1", "j1", "l1"}
    /\ st' = [st EXCEPT ![c] = State(warp[WarpOf(c)])]
    /\ pc' = [pc EXCEPT ![c] = NextPc(pc[c])]
    /\ UNCHANGED <<hello, warps, warp, ss, errorC, stateC, hostDataC, wref, sl,
                   upc, ust, usl, uver, hpc, dpc, dmode, panicked, nEvents, hostSet>>
    /\ UNCHANGED openVars

\* Warp.updateHost: w.host.session.stateW.Encode(st).
UpdateHostEncode(c) ==
    /\ Running
    /\ pc[c] \in {"h2", "j2", "l2"}
    /\ stateC' = Encode(stateC, {warp[WarpOf(c)].host.session}, st[c])
    /\ st' = [st EXCEPT ![c] = Nil]
    /\ pc' = [pc EXCEPT ![c] = NextPc(pc[c])]
    /\ UNCHANGED <<hello, warps, warp, ss, errorC, hostDataC, wref, sl, upc,
                   ust, usl, uver, hpc, dpc, dmode, panicked, nEvents, hostSet>>
    /\ UNCHANGED openVars

\* Warp.updateShellClients: st := w.State(ctx).
UpdateShellClientsState(c) ==
    /\ Running
    /\ pc[c] \in {"h3", "j3", "l3"}
    /\ st' = [st EXCEPT ![c] = State(warp[WarpOf(c)])]
    /\ pc' = [pc EXCEPT ![c] = NextPc(pc[c])]
    /\ UNCHANGED <<hello, warps, warp, ss, errorC, stateC, hostDataC, wref, sl,
                   upc, ust, usl, uver, hpc, dpc, dmode, panicked, nEvents, hostSet>>
    /\ UNCHANGED openVars

\* Warp.updateShellClients: sessions := w.Sessions(ctx).
UpdateShellClientsSessions(c) ==
    /\ Running
    /\ pc[c] \in {"h4", "j4", "l4"}
    /\ sl' = [sl EXCEPT ![c] = Sessions(warp[WarpOf(c)])]
    /\ pc' = [pc EXCEPT ![c] = NextPc(pc[c])]
    /\ UNCHANGED <<hello, warps, warp, ss, errorC, stateC, hostDataC, wref, st,
                   upc, ust, usl, uver, hpc, dpc, dmode, panicked, nEvents, hostSet>>
    /\ UNCHANGED openVars

\* Warp.updateShellClients: ss.stateW.Encode(st) for each session of sessions.
UpdateShellClientsEncode(c) ==
    /\ Running
    /\ pc[c] \in {"h5", "j5", "l5"}
    /\ stateC' = Encode(stateC, sl[c], st[c])
    /\ st' = [st EXCEPT ![c] = Nil]
    /\ sl' = [sl EXCEPT ![c] = {}]
    /\ pc' = [pc EXCEPT ![c] = NextPc(pc[c])]
    /\ UNCHANGED <<hello, warps, warp, ss, errorC, hostDataC, wref, upc, ust,
                   usl, uver, hpc, dpc, dmode, panicked, nEvents, hostSet>>
    /\ UNCHANGED openVars

\* updateHost; updateShellClients in one step: the two snapshots, the session
\* list and the writes, with no other task in between.
UpdateAll(c) ==
    /\ Running
    /\ pc[c] \in {"h1", "j1", "l1"}
    /\ LET w == warp[WarpOf(c)] IN
       stateC' = Encode(Encode(stateC, {w.host.session}, State(w)),
                        Sessions(w), State(w))
    /\ pc' = [pc EXCEPT ![c] = NextPc(NextPc(NextPc(NextPc(NextPc(pc[c])))))]
    /\ UNCHANGED <<hello, warps, warp, ss, errorC, hostDataC, wref, st, sl, upc,
                   ust, usl, uver, hpc, dpc, dmode, panicked, nEvents,
                   hostSet>>
    /\ UNCHANGED openVars

\* ------------------------------------------------------- Warp.handleHost
\* Warp.handleHost after <-ss.ctx.Done(): every session Sessions returns is
\* cancelled, and the handler returns.
HostCancelClients(h) ==
    /\ Running
    /\ pc[h] = "wait"
    /\ h \in Hosts
    /\ ss[h].ctxDone
    /\ ss' = Cancel(ss, Sessions(warp[h]))
    /\ pc' = [pc EXCEPT ![h] = "cleanup"]
    /\ UNCHANGED <<hello, warps, warp, errorC, stateC, hostDataC, wref, st, sl,
                   upc, ust, usl, uver, hpc, dpc, dmode, panicked, nEvents, hostSet>>
    /\ UNCHANGED openVars

\* Srv.handleHost, "Clean-up warp": delete(s.warps, ss.warp) under the
\* dispatcher lock.
SrvCleanupWarp(h) ==
    /\ Running
    /\ pc[h] = "cleanup"
    /\ warps' = [warps EXCEPT ![hello[h].warp] = Nil]
    /\ pc' = [pc EXCEPT ![h] = "teardown"]
    /\ UNCHANGED <<hello, warp, ss, errorC, stateC, hostDataC, wref, st, sl,
                   upc, ust, usl, uver, hpc, dpc, dmode, panicked, nEvents, hostSet>>
    /\ UNCHANGED openVars

\* A faulty ValidUpdate: the secret is not compared.
ValidUpdateNoSecret(w, h, u) ==
    /\ u.Warp = w.token
    /\ u.From.Token = hello[h].From.Token
    /\ u.From.User = hello[h].From.User
\* The checks of the update consumer on a decoded HostUpdate.
ValidUpdate(w, h, u) ==
    /\ u.Warp = w.token
    /\ u.From.Token = hello[h].From.Token
    /\ u.From.User = hello[h].From.User
    /\ u.From.Secret = hello[h].From.Secret

\* A faulty ApplyUpdate: a user of Modes that is not a shell client is given
\* a record.
ApplyUpdateAddsUnknown(w, u) ==
    [w EXCEPT
       !.windowSize = u.WindowSize,
       !.shellClients =
          [x \in DOMAIN @ \cup DOMAIN u.Modes |->
             IF x \in DOMAIN u.Modes
             THEN [token |-> x, mode |-> u.Modes[x],
                   sessions |-> IF x \in DOMAIN @ THEN @[x].sessions
                                ELSE EmptyMap]
             ELSE @[x]],
       !.ver = @ + 1]
\* The warp after a HostUpdate is applied under the warp lock: the window size
\* is replaced, and the mode of each user of Modes that is a shell client.
ApplyUpdate(w, u) ==
    [w EXCEPT
       !.windowSize = u.WindowSize,
       !.shellClients =
          [x \in DOMAIN @ |->
             IF x \in DOMAIN u.Modes THEN [@[x] EXCEPT !.mode = u.Modes[x]]
             ELSE @[x]],
       !.ver = @ + 1]

\* The update consumer decodes a HostUpdate: a mismatch sends
\* invalid_host_update, leaves the loop (upc "mismatch") and cancels the
\* session; otherwise the update is applied and updateShellClients follows.
HostUpdateDecode(h) ==
    /\ Running
    /\ upc[h] = "decode"
    /\ nEvents < MaxEvents
    /\ \E u \in HostUpdates(h) :
         IF ValidUpdate(warp[h], h, u)
         THEN /\ warp' = [warp EXCEPT ![h] = ApplyUpdate(warp[h], u)]
              /\ uver' = [uver EXCEPT ![h] = warp'[h].ver]
              /\ hostSet' =
                   [hostSet EXCEPT ![h] =
                      [x \in Users |->
                         IF x \in DOMAIN u.Modes
                              /\ x \in DOMAIN warp[h].shellClients
                         THEN u.Modes[x] ELSE @[x]]]
              /\ upc' = [upc EXCEPT ![h] = "u3"]
              /\ UNCHANGED <<errorC, ss>>
         ELSE /\ errorC' = SendError(errorC, ss, h, "invalid_host_update")
              /\ ss' = Cancel(ss, {h})
              /\ upc' = [upc EXCEPT ![h] = "mismatch"]
              /\ UNCHANGED <<warp, hostSet, uver>>
    /\ nEvents' = nEvents + 1
    /\ UNCHANGED <<hello, warps, stateC, hostDataC, pc, wref, st, sl, ust, usl,
                   hpc, dpc, dmode, panicked>>
    /\ UNCHANGED openVars

\* The update consumer fails to decode (the update sub-stream is closed):
\* invalid_host_update, and the session is cancelled.
HostUpdateDecodeFail(h) ==
    /\ Running
    /\ nEvents < MaxEvents
    /\ nEvents' = nEvents + 1
    /\ upc[h] = "decode"
    /\ errorC' = SendError(errorC, ss, h, "invalid_host_update")
    /\ ss' = Cancel(ss, {h})
    /\ upc' = [upc EXCEPT ![h] = "exit"]
    /\ UNCHANGED <<hello, warps, warp, stateC, hostDataC, pc, wref, st, sl, ust,
                   usl, uver, hpc, dpc, dmode, panicked, hostSet>>
    /\ UNCHANGED openVars

\* The update consumer's updateShellClients: st := w.State(ctx).
ConsumerState(h) ==
    /\ Running
    /\ upc[h] = "u3"
    /\ ust' = [ust EXCEPT ![h] = State(warp[h])]
    /\ upc' = [upc EXCEPT ![h] = "u4"]
    /\ UNCHANGED <<hello, warps, warp, ss, errorC, stateC, hostDataC, pc, wref,
                   st, sl, usl, uver, hpc, dpc, dmode, panicked, nEvents, hostSet>>
    /\ UNCHANGED openVars

\* The update consumer's updateShellClients: sessions := w.Sessions(ctx).
ConsumerSessions(h) ==
    /\ Running
    /\ upc[h] = "u4"
    /\ usl' = [usl EXCEPT ![h] = Sessions(warp[h])]
    /\ upc' = [upc EXCEPT ![h] = "u5"]
    /\ UNCHANGED <<hello, warps, warp, ss, errorC, stateC, hostDataC, pc, wref,
                   st, sl, ust, uver, hpc, dpc, dmode, panicked, nEvents,
                   hostSet>>
    /\ UNCHANGED openVars

\* The update consumer's updateShellClients: Encode(st) for each session; the
\* loop then decodes the next update.
ConsumerEncode(h) ==
    /\ Running
    /\ upc[h] = "u5"
    /\ stateC' = Encode(stateC, usl[h], ust[h])
    /\ ust' = [ust EXCEPT ![h] = Nil]
    /\ usl' = [usl EXCEPT ![h] = {}]
    /\ uver' = [uver EXCEPT ![h] = 0]
    /\ upc' = [upc EXCEPT ![h] = "decode"]
    /\ UNCHANGED <<hello, warps, warp, ss, errorC, hostDataC, pc, wref, st, sl,
                   hpc, dpc, dmode, panicked, nEvents, hostSet>>
    /\ UNCHANGED openVars

\* The update consumer's updateShellClients in one step.
ConsumerUpdateAll(h) ==
    /\ Running
    /\ upc[h] = "u3"
    /\ stateC' = Encode(stateC, Sessions(warp[h]), State(warp[h]))
    /\ uver' = [uver EXCEPT ![h] = 0]
    /\ upc' = [upc EXCEPT ![h] = "decode"]
    /\ UNCHANGED <<hello, warps, warp, ss, errorC, hostDataC, pc, wref, st, sl,
                   ust, usl, hpc, dpc, dmode, panicked, nEvents, hostSet>>
    /\ UNCHANGED openVars

\* The host data consumer fails to read the host's dataC:
\* data_receive_failed, and the session is cancelled.
HostDataReadFail(h) ==
    /\ Running
    /\ nEvents < MaxEvents
    /\ nEvents' = nEvents + 1
    /\ hpc[h] = "read"
    /\ errorC' = SendError(errorC, ss, h, "data_receive_failed")
    /\ ss' = Cancel(ss, {h})
    /\ hpc' = [hpc EXCEPT ![h] = "exit"]
    /\ UNCHANGED <<hello, warps, warp, stateC, hostDataC, pc, wref, st, sl, upc,
                   ust, usl, uver, dpc, dmode, panicked, hostSet>>
    /\ UNCHANGED openVars

\* A faulty ClientCleanup: the session is left in its user's table.
ClientCleanupKeepsSession(c) ==
    /\ Running
    /\ pc[c] = "wait"
    /\ c \in Clients
    /\ ss[c].ctxDone
    /\ pc' = [pc EXCEPT ![c] = "l1"]
    /\ UNCHANGED <<hello, warps, warp, ss, errorC, stateC, hostDataC, wref, st,
                   sl, upc, ust, usl, uver, hpc, dpc, dmode, panicked, nEvents,
                   hostSet>>
    /\ UNCHANGED openVars
\* ----------------------------------------------------- Warp.handleClient
\* Warp.handleClient after <-ss.ctx.Done(): the clean-up under the warp lock.
ClientCleanup(c) ==
    /\ Running
    /\ pc[c] = "wait"
    /\ c \in Clients
    /\ ss[c].ctxDone
    /\ IF CleanupPanics(warp[wref[c]], c)
       THEN /\ panicked' = TRUE
            /\ UNCHANGED <<warp, pc>>
       ELSE /\ panicked' = panicked
            /\ warp' = [warp EXCEPT ![wref[c]] = RemoveClient(@, c)]
            /\ pc' = [pc EXCEPT ![c] = "l1"]
    /\ UNCHANGED <<hello, warps, ss, errorC, stateC, hostDataC, wref, st, sl,
                   upc, ust, usl, uver, hpc, dpc, dmode, nEvents, hostSet>>
    /\ UNCHANGED openVars

\* A faulty MayWrite: the read bit is tested.
MayWriteIfRead(mode) == HasMode(mode, ModeShellRead)
\* Warp.rcvClientData: TRUE when the chunk is committed to the data channel.
MayWrite(mode) == HasMode(mode, ModeShellWrite)

\* The client data consumer reads a chunk and Warp.rcvClientData reads the
\* user's mode under the warp lock (a user without a record is a nil
\* *UserState); a chunk of a user that may not write is dropped.
ClientDataRead(c) ==
    /\ Running
    /\ dpc[c] = "read"
    /\ nEvents < MaxEvents
    /\ nEvents' = nEvents + 1
    /\ LET w == warp[wref[c]] IN
       IF hello[c].From.User \notin DOMAIN w.shellClients
       THEN /\ panicked' = TRUE
            /\ UNCHANGED <<dmode, dpc>>
       ELSE /\ panicked' = panicked
            /\ dmode' = [dmode EXCEPT ![c] = w.shellClients[hello[c].From.User].mode]
            /\ dpc' = [dpc EXCEPT ![c] =
                         IF MayWrite(dmode'[c]) THEN "send" ELSE "read"]
    /\ UNCHANGED <<hello, warps, warp, ss, errorC, stateC, hostDataC, pc, wref,
                   st, sl, upc, ust, usl, uver, hpc, hostSet>>
    /\ UNCHANGED openVars

\* The client data consumer fails to read the client's dataC:
\* data_receive_failed, and the session is cancelled.
ClientDataReadFail(c) ==
    /\ Running
    /\ nEvents < MaxEvents
    /\ nEvents' = nEvents + 1
    /\ dpc[c] = "read"
    /\ errorC' = SendError(errorC, ss, c, "data_receive_failed")
    /\ ss' = Cancel(ss, {c})
    /\ dpc' = [dpc EXCEPT ![c] = "exit"]
    /\ UNCHANGED <<hello, warps, warp, stateC, hostDataC, pc, wref, st, sl, upc,
                   ust, usl, uver, hpc, dmode, panicked, hostSet>>
    /\ UNCHANGED openVars

\* The rendezvous on w.data: the host data producer receives the chunk a
\* client data consumer is sending and writes it to the host's dataC.
HostSendData(c) ==
    /\ Running
    /\ dpc[c] = "send"
    /\ hostDataC' = [hostDataC EXCEPT ![wref[c]] =
                       Append(@, [from |-> c, mode |-> dmode[c]])]
    /\ dpc' = [dpc EXCEPT ![c] = "read"]
    /\ UNCHANGED <<hello, warps, warp, ss, errorC, stateC, pc, wref, st, sl,
                   upc, ust, usl, uver, hpc, dmode, panicked, nEvents, hostSet>>
    /\ UNCHANGED openVars

\* ------------------------------------------------------------------ spec
\* The steps of the dispatcher, of the host tasks and of the client tasks, but
\* for the snapshots and for the rejection of a second host.
Step ==
    \/ \E h \in Hosts : SrvHandleHost(h)
    \/ \E c \in Clients : SrvHandleShellClient(c)
    \/ \E c \in Clients : SrvRejectShellClient(c)
    \/ \E c \in Clients : WarpHandleClient(c)
    \/ \E c \in Conn : SrvTearDown(c)
    \/ \E h \in Hosts : HostCancelClients(h)
    \/ \E h \in Hosts : SrvCleanupWarp(h)
    \/ \E h \in Hosts : HostUpdateDecode(h)
    \/ \E h \in Hosts : HostUpdateDecodeFail(h)
    \/ \E h \in Hosts : HostDataReadFail(h)
    \/ \E c \in Clients : ClientCleanup(c)
    \/ \E c \in Clients : ClientDataRead(c)
    \/ \E c \in Clients : ClientDataReadFail(c)
    \/ \E c \in Clients : HostSendData(c)

\* The relay with each updateHost; updateShellClients taken as one step.
Next ==
    \/ Step
    \/ \E h \in Hosts : SrvRejectHost(h)
    \/ \E c \in Conn : UpdateAll(c)
    \/ \E h \in Hosts : ConsumerUpdateAll(h)

Spec == Init /\ [][Next]_vars

\* The relay serving one host and one client, with the snapshots, the session
\* lists and the writes of concurrent updateHost and updateShellClients calls
\* interleaved.
NextBroadcast ==
    \/ Step
    \/ \E c \in Conn : UpdateHostState(c)
    \/ \E c \in Conn : UpdateHostEncode(c)
    \/ \E c \in Conn : UpdateShellClientsState(c)
    \/ \E c \in Conn : UpdateShellClientsSessions(c)
    \/ \E c \in Conn : UpdateShellClientsEncode(c)
    \/ \E h \in Hosts : ConsumerState(h)
    \/ \E h \in Hosts : ConsumerSessions(h)
    \/ \E h \in Hosts : ConsumerEncode(h)

SpecBroadcast == InitBroadcast /\ [][NextBroadcast]_vars

\* ------------------------------------------------------- client WarpState
DefaultUserMode == ModeShellRead

\* NewWarpState: the shadow a session starts with, holding the user of its
\* hello only; hosting with the host mode when the hello is a host's.
NewWarpState(hl) ==
    [token |-> hl.warp, windowSize |-> 0,
     users |-> [u \in {hl.From.User} |->
                  IF hl.type = SsTpHost
                  THEN [token |-> u, mode |-> DefaultHostMode, hosting |-> TRUE]
                  ELSE [token |-> u, mode |-> DefaultUserMode,
                        hosting |-> FALSE]]]

\* A faulty UpdateUser: the host's shadow takes the modes of the snapshot.
UpdateUserTrustsModes(users, token, user, hosting) ==
    IF token # user.Token THEN [err |-> TRUE, users |-> users]
    ELSE IF token \notin DOMAIN users
    THEN [err |-> FALSE,
          users |-> Put(users, token,
                        [token |-> token, mode |-> user.Mode,
                         hosting |-> user.Hosting])]
    ELSE [err |-> FALSE, users |-> [users EXCEPT ![token].mode = user.Mode]]
\* WarpState.Update, the body of the loop over state.Users: the users after
\* the entry (token, user) of the snapshot is handled, or the error returned.
UpdateUser(users, token, user, hosting) ==
    IF token # user.Token THEN [err |-> TRUE, users |-> users]
    ELSE IF token \notin DOMAIN users
    THEN IF hosting /\ user.Hosting THEN [err |-> TRUE, users |-> users]
         ELSE IF hosting /\ user.Mode # DefaultUserMode
         THEN [err |-> TRUE, users |-> users]
         ELSE [err |-> FALSE,
               users |-> Put(users, token,
                             [token |-> token, mode |-> DefaultUserMode,
                              hosting |-> user.Hosting])]
    ELSE [err |-> FALSE,
          users |-> [users EXCEPT ![token].mode =
                                     IF hosting THEN @ ELSE user.Mode]]

\* WarpState.Update, the loop over state.Users in the order a range over the
\* map takes; the loop returns at the first error, keeping what it changed.
RECURSIVE UpdateLoop(_, _, _, _)
UpdateLoop(users, state, order, hosting) ==
    IF order = <<>> THEN [err |-> FALSE, users |-> users]
    ELSE LET r == UpdateUser(users, Head(order), state.Users[Head(order)],
                             hosting)
         IN  IF r.err THEN r
             ELSE UpdateLoop(r.users, state, Tail(order), hosting)

\* The orders in which a range over a map with the keys S may go.
Orders(S) ==
    { o \in [1..Cardinality(S) -> S] : \A i, j \in DOMAIN o : i # j => o[i] # o[j] }

\* WarpState.Update: the shadow after the snapshot state is applied with the
\* keys of state.Users ranged over in order, and whether an error is returned.
\* The users the snapshot does not name are deleted when no error occurred.
Update(w, state, order, hosting) ==
    IF state.Warp # w.token THEN [err |-> TRUE, w |-> w]
    ELSE LET r == UpdateLoop(w.users, state, order, hosting)
         IN  IF r.err
             THEN [err |-> TRUE,
                   w |-> [w EXCEPT !.windowSize = state.WindowSize,
                                   !.users = r.users]]
             ELSE [err |-> FALSE,
                   w |-> [w EXCEPT
                            !.windowSize = state.WindowSize,
                            !.users = [u \in DOMAIN r.users
                                            \cap DOMAIN state.Users |->
                                         r.users[u]]]]

\* WarpState.SetMode
SetMode(w, user, mode) ==
    IF user \notin DOMAIN w.users THEN [err |-> TRUE, w |-> w]
    ELSE [err |-> FALSE, w |-> [w EXCEPT !.users[user].mode = mode]]

\* A faulty HostCanReceiveWrite: the shadow is not asked.
HostCanReceiveWriteAlways(w) == TRUE
\* WarpState.HostCanReceiveWrite
HostCanReceiveWrite(w) ==
    \E u \in DOMAIN w.users :
       ~w.users[u].hosting /\ HasMode(w.users[u].mode, ModeShellWrite)

\* WarpState.Modes: the modes of the users that are not hosting.
Modes(w) ==
    [u \in { x \in DOMAIN w.users : ~w.users[x].hosting } |-> w.users[u].mode]

\* The entries a snapshot may hold under the key u (warp.User): any mode and
\* role and, for ub, a token that is not the key.
SnapshotUsers(u) ==
    { [Token |-> u, Mode |-> m, Hosting |-> hh] :
        m \in {ModeShellRead, DefaultHostMode}, hh \in BOOLEAN }
      \cup (IF u = "ub"
            THEN { [Token |-> "ux", Mode |-> ModeShellRead, Hosting |-> FALSE] }
            ELSE {})

\* The snapshots an endpoint may decode from its stateC (warp.State), whatever
\* the relay is: any users of this warp, or another warp.
Snapshots ==
    UNION { { [Warp |-> WarpToken, WindowSize |-> 2, Users |-> us] :
                us \in { f \in [D -> UNION { SnapshotUsers(u) : u \in D }] :
                           \A u \in D : f[u] \in SnapshotUsers(u) } } :
            D \in SUBSET Users }
      \cup { [Warp |-> "other", WindowSize |-> 2, Users |-> EmptyMap] }

\* The role an endpoint passes to UpdateState: `warp open` passes true,
\* `warp connect` false.
HostingRole(c) == hello[c].type = SsTpHost

\* Session.UpdateState: under the session lock, a decoded snapshot is applied
\* to the shadow.
UpdateState(c) ==
    /\ shadow[c] # NoWarpState
    /\ \E s \in Snapshots : \E o \in Orders(DOMAIN s.Users) :
         shadow' = [shadow EXCEPT ![c] = Update(@, s, o, HostingRole(c)).w]
    /\ UNCHANGED relayVars
    /\ UNCHANGED <<supVars, fanVars>>

\* Srv.executeAuthorize, Session.SetMode: under the session lock, ShellWrite is
\* added to the mode of a user of the shadow.
AuthorizeSetMode(c) ==
    /\ HostingRole(c)
    /\ shadow[c] # NoWarpState
    /\ \E u \in DOMAIN shadow[c].users :
         /\ shadow' = [shadow EXCEPT ![c] =
                         SetMode(@, u, ModeOr(@.users[u].mode, ModeShellWrite)).w]
         /\ es' = [es EXCEPT ![c].granted = @ \/ ~shadow[c].users[u].hosting]
    /\ UNCHANGED <<link, updateC, dataW, sver, rootDone, userErr, css,
                   inited, first, cur, cpc, epc, spc, fpc, wpc, apc, ptyIn,
                   cmd, res, clientDataC, hostOut, clink, hsl, ppc, snapQ,
                   smx, dwin>>
    /\ UNCHANGED relayVars

\* Srv.executeRevoke, Session.SetMode: under the session lock, ShellWrite is
\* removed from the mode of a user of the shadow.
RevokeSetMode(c) ==
    /\ HostingRole(c)
    /\ shadow[c] # NoWarpState
    /\ \E u \in DOMAIN shadow[c].users :
         LET mode == shadow[c].users[u].mode IN
         shadow' = [shadow EXCEPT ![c] =
                      SetMode(@, u, mode - (IF HasMode(mode, ModeShellWrite)
                                            THEN ModeShellWrite ELSE 0)).w]
    /\ UNCHANGED relayVars
    /\ UNCHANGED <<supVars, fanVars>>

\* One endpoint: a host, or a shell client.
HellosShadow ==
    { [c \in Conn |->
         IF c = e
         THEN (IF c = "h1" THEN HostHelloMsg(c) ELSE ClientHelloC1)
         ELSE NoHello] :
        e \in {"h1", "c1"} }

\* The shadow of a host session, or of a shell client session, as NewSession
\* leaves it.
InitShadow ==
    /\ RelayInit(HellosShadow)
    /\ shadow = [c \in Conn |->
                   IF hello[c].type = "none" THEN NoWarpState
                   ELSE NewWarpState(hello[c])]
    /\ SupOff

\* The shadows under any snapshots and any authorize and revoke.
NextShadow ==
    \/ \E c \in Conn : UpdateState(c)
    \/ \E c \in Conn : AuthorizeSetMode(c)
    \/ \E c \in Conn : RevokeSetMode(c)

SpecShadow == InitShadow /\ [][NextShadow]_vars

\* A faulty TearDown: tornDown is not tested.
EndpointTearDownAgain(e, h) ==
    [e EXCEPT ![h].tornDown = TRUE, ![h].ctxDone = TRUE,
              ![h].cancels = @ + 1, ![h].closes = @ + 1]
\* ------------------------------------------------------ endpoint session
\* Session.TearDown of the endpoint, under the session lock: the first call
\* marks the session, calls cancel and closes the multiplexer.
EndpointTearDown(e, h) ==
    IF e[h].tornDown THEN e
    ELSE [e EXCEPT ![h].tornDown = TRUE, ![h].ctxDone = TRUE,
                   ![h].cancels = @ + 1, ![h].closes = @ + 1]

\* cancel() of the context ManageSession made for the session.
EndpointCancel(e, h) == [e EXCEPT ![h].ctxDone = TRUE]

\* A read on a sub-stream of the session of h fails at the endpoint: the
\* transport failed, the endpoint closed its multiplexer, or the relay did.
ReadFails(h) == link[h] = "down" \/ es[h].tornDown \/ ss[h].tornDown

\* A read on a sub-stream of the session of h fails at the relay.
RelayReadFails(h) == link[h] = "down" \/ es[h].tornDown

\* A faulty SendHostUpdate: tornDown is not tested.
SendHostUpdateUnchecked(h, u) ==
    IF link[h] # "up" \/ es[h].tornDown
    THEN [err |-> TRUE, updateC |-> updateC]
    ELSE [err |-> FALSE, updateC |-> [updateC EXCEPT ![h] = Append(@, u)]]
\* Session.SendHostUpdate: under the session lock, the update is encoded on
\* updateW unless the session is torn down; err is the error returned.
SendHostUpdate(h, u) ==
    IF es[h].tornDown THEN [err |-> FALSE, updateC |-> updateC]
    ELSE IF link[h] # "up" THEN [err |-> TRUE, updateC |-> updateC]
    ELSE [err |-> FALSE, updateC |-> [updateC EXCEPT ![h] = Append(@, u)]]

\* Session.WriteDataC: under the session lock, the chunk is written to dataC
\* unless the session is torn down.
WriteDataC(h) ==
    IF es[h].tornDown \/ link[h] # "up" THEN dataW
    ELSE [dataW EXCEPT ![h] = @ + 1]
\* ---------------------------------------------------- warp open: Execute
\* c.errC <- e when the goroutine of Execute that waits on errC is still
\* there: it takes the error as userErr and cancels the root context.
ErrReceived(e) ==
    /\ userErr = Nil
    /\ userErr' = e
    /\ rootDone' = TRUE

\* The HostUpdate `warp open` sends when a session opens and on a SIGWINCH: no
\* Modes.
SizeUpdate(h, sz) ==
    [Warp |-> WarpToken, From |-> HostHelloMsg(h).From, WindowSize |-> sz,
     Modes |-> EmptyMap]

\* The HostUpdate authorize and revoke send: the window size and the modes of
\* the shadow.
ModesUpdate(h) ==
    [Warp |-> WarpToken, From |-> HostHelloMsg(h).From,
     WindowSize |-> shadow[h].windowSize, Modes |-> Modes(shadow[h])]

\* The transport of an open connection fails.
LinkFail(h) ==
    /\ link[h] = "up"
    /\ link' = [link EXCEPT ![h] = "down"]
    /\ UNCHANGED <<shadow, es, updateC, dataW, sver, rootDone, userErr, css,
                   inited, first, cur, cpc, epc, spc, fpc, wpc, apc, ptyIn,
                   cmd, res, clientDataC, hostOut, clink, hsl, ppc, snapQ,
                   smx, dwin>>
    /\ UNCHANGED relayVars

\* A faulty ConnLoopOpen: the shadow of the previous session is kept.
ConnLoopOpenKeepsShadow ==
    /\ cpc = "dial"
    /\ link' = [link EXCEPT ![cur] = "up"]
    /\ es' = [es EXCEPT ![cur] = [NewEndpoint EXCEPT !.greeted = TRUE]]
    /\ shadow' = [shadow EXCEPT ![cur] =
                    IF cur = "h1" THEN NewWarpState(hello[cur])
                    ELSE shadow["h1"]]
    /\ epc' = [epc EXCEPT ![cur] = "decode"]
    /\ cpc' = "state"
    /\ UNCHANGED <<updateC, dataW, sver, rootDone, userErr, css, inited,
                   first, cur, spc, fpc, wpc, apc, ptyIn, cmd, res,
                   clientDataC, hostOut, clink, hsl, ppc, snapQ, smx, dwin>>
    /\ UNCHANGED relayVars
\* ConnLoop and ManageSession up to the initial HostUpdate: the dial succeeds,
\* cli.NewSession opens the sub-streams and sends the hello, the error listener
\* is started and the initial HostUpdate is sent.
ConnLoopOpen ==
    /\ cpc = "dial"
    /\ link' = [link EXCEPT ![cur] = "up"]
    /\ es' = [es EXCEPT ![cur] = [NewEndpoint EXCEPT !.greeted = TRUE]]
    /\ shadow' = [shadow EXCEPT ![cur] = NewWarpState(hello[cur])]
    /\ epc' = [epc EXCEPT ![cur] = "decode"]
    /\ cpc' = "state"
    /\ UNCHANGED <<updateC, dataW, sver, rootDone, userErr, css, inited,
                   first, cur, spc, fpc, wpc, apc, ptyIn, cmd, res,
                   clientDataC, hostOut, clink, hsl, ppc, snapQ, smx, dwin>>
    /\ UNCHANGED relayVars

\* ConnLoop: the dial fails; the first time the error goes to errC and the loop
\* ends, afterwards the loop sleeps and dials again.
ConnLoopDialFail ==
    /\ cpc = "dial"
    /\ IF first
       THEN /\ ErrReceived("Connection error")
            /\ cpc' = "done"
       ELSE UNCHANGED <<userErr, rootDone, cpc>>
    /\ UNCHANGED <<shadow, es, link, updateC, dataW, sver, css, inited,
                   first, cur, epc, spc, fpc, wpc, apc, ptyIn, cmd, res,
                   clientDataC, hostOut, clink, hsl, ppc, snapQ, smx, dwin>>
    /\ UNCHANGED relayVars

\* ManageSession: the first snapshot is decoded and applied to the shadow; an
\* error of the Update goes to errC unless warpdErrOnly.  Without an error the
\* local command server is let start (initC) the first time.
ManageFirstState ==
    /\ cpc = "state"
    /\ ~ReadFails(cur)
    /\ stateC[cur] # sver[cur]
    /\ sver' = [sver EXCEPT ![cur] = stateC[cur]]
    /\ \E o \in Orders(DOMAIN State(warp[cur]).Users) :
         LET r == Update(shadow[cur], State(warp[cur]), o, TRUE) IN
         /\ shadow' = [shadow EXCEPT ![cur] = r.w]
         /\ IF ~r.err
            THEN /\ inited' = TRUE
                 /\ cpc' = "attach"
                 /\ UNCHANGED <<userErr, rootDone>>
            ELSE /\ UNCHANGED inited
                 /\ IF first /\ userErr = Nil
                    THEN /\ ErrReceived("Failed to apply initial state update")
                         /\ cpc' = "return"
                    ELSE /\ UNCHANGED <<userErr, rootDone>>
                         /\ cpc' = IF first THEN "blocked" ELSE "return"
    /\ UNCHANGED <<es, link, updateC, dataW, css, first, cur, epc, spc, fpc,
                   wpc, apc, ptyIn, cmd, res, clientDataC, hostOut, clink,
                   hsl, ppc, snapQ, smx, dwin>>
    /\ UNCHANGED relayVars

\* ManageSession: the first DecodeState fails; ManageSession returns.
ManageFirstStateFail ==
    /\ cpc = "state"
    /\ ReadFails(cur)
    /\ cpc' = "return"
    /\ UNCHANGED <<shadow, es, link, updateC, dataW, sver, rootDone, userErr,
                   css, inited, first, cur, epc, spc, fpc, wpc, apc, ptyIn,
                   cmd, res, clientDataC, hostOut, clink, hsl, ppc, snapQ,
                   smx, dwin>>
    /\ UNCHANGED relayVars

\* ManageSession, "The host session is ready": under the lock of Open and, in
\* SetSession, of the local command server (held by an authorize or revoke up
\* to its send), the session is attached; the state loop and the dataC to pty
\* multiplexer are started.
ManageAttach ==
    /\ cpc = "attach"
    /\ apc # "send"
    /\ css' = cur
    /\ spc' = [spc EXCEPT ![cur] = "decode"]
    /\ fpc' = [fpc EXCEPT ![cur] = "read"]
    /\ cpc' = "wait"
    /\ UNCHANGED <<shadow, es, link, updateC, dataW, sver, rootDone, userErr,
                   inited, first, cur, epc, wpc, apc, ptyIn, cmd, res,
                   clientDataC, hostOut, clink, hsl, ppc, snapQ, smx, dwin>>
    /\ UNCHANGED relayVars

\* ManageSession: <-ctx.Done() of the session context, a child of the root
\* context, then ss.TearDown().
ManageDone ==
    /\ cpc = "wait"
    /\ es[cur].ctxDone \/ rootDone
    /\ es' = EndpointTearDown(es, cur)
    /\ cpc' = "detach"
    /\ UNCHANGED <<shadow, link, updateC, dataW, sver, rootDone, userErr,
                   css, inited, first, cur, epc, spc, fpc, wpc, apc, ptyIn,
                   cmd, res, clientDataC, hostOut, clink, hsl, ppc, snapQ,
                   smx, dwin>>
    /\ UNCHANGED relayVars

\* ManageSession: under the two locks, c.ss = nil and SetSession(nil).
ManageDetach ==
    /\ cpc = "detach"
    /\ apc # "send"
    /\ css' = Nil
    /\ cpc' = "return"
    /\ UNCHANGED <<shadow, es, link, updateC, dataW, sver, rootDone, userErr,
                   inited, first, cur, epc, spc, fpc, wpc, apc, ptyIn, cmd,
                   res, clientDataC, hostOut, clink, hsl, ppc, snapQ, smx,
                   dwin>>
    /\ UNCHANGED relayVars

\* ManageSession returns (the deferred ss.TearDown()), and ConnLoop either
\* leaves, the root context being done, or goes on with the next connection.
ManageReturn ==
    /\ cpc \in {"return", "loop"}
    /\ es' = IF cpc = "return" THEN EndpointTearDown(es, cur) ELSE es
    /\ first' = FALSE
    /\ IF rootDone THEN cpc' = "done" /\ cur' = cur
       ELSE IF cur = "h1" THEN cpc' = "dial" /\ cur' = "h2"
       ELSE cpc' = "end" /\ cur' = cur
    /\ UNCHANGED <<shadow, link, updateC, dataW, sver, rootDone, userErr,
                   css, inited, epc, spc, fpc, wpc, apc, ptyIn, cmd, res,
                   clientDataC, hostOut, clink, hsl, ppc, snapQ, smx, dwin>>
    /\ UNCHANGED relayVars

\* The error listener decodes an Error the relay wrote: it goes to errC, then
\* the session context is cancelled.  With nobody left to receive on errC the
\* goroutine stays at the send.
ErrorListen(h) ==
    /\ epc[h] = "decode"
    /\ errorC[h] # <<>>
    /\ link[h] = "up" /\ ~es[h].tornDown
    /\ IF userErr = Nil
       THEN /\ ErrReceived(Head(errorC[h]))
            /\ es' = EndpointCancel(es, h)
            /\ epc' = [epc EXCEPT ![h] = "exit"]
       ELSE /\ epc' = [epc EXCEPT ![h] = "blocked"]
            /\ UNCHANGED <<userErr, rootDone, es>>
    /\ UNCHANGED <<shadow, link, updateC, dataW, sver, css, inited, first,
                   cur, cpc, spc, fpc, wpc, apc, ptyIn, cmd, res,
                   clientDataC, hostOut, clink, hsl, ppc, snapQ, smx, dwin>>
    /\ UNCHANGED relayVars

\* The error listener fails to decode: the session context is cancelled.  (The
\* step is left out once the context is cancelled, it changes nothing then,
\* and the goroutine is not followed further: what made the decode fail stays.)
ErrorListenFail(h) ==
    /\ epc[h] = "decode"
    /\ ~es[h].ctxDone
    /\ \/ link[h] = "down"
       \/ es[h].tornDown
       \/ ss[h].tornDown /\ errorC[h] = <<>>
    /\ es' = EndpointCancel(es, h)
    /\ UNCHANGED <<shadow, link, updateC, dataW, sver, rootDone, userErr,
                   css, inited, first, cur, cpc, epc, spc, fpc, wpc, apc,
                   ptyIn, cmd, res, clientDataC, hostOut, clink, hsl, ppc,
                   snapQ, smx, dwin>>
    /\ UNCHANGED relayVars

\* The state loop decodes a snapshot and applies it; it leaves on an error and
\* when the session context is done, cancelling the session context.
StateLoop(h) ==
    /\ spc[h] = "decode"
    /\ ~ReadFails(h)
    /\ stateC[h] # sver[h]
    /\ sver' = [sver EXCEPT ![h] = stateC[h]]
    /\ \E o \in Orders(DOMAIN State(warp[h]).Users) :
         LET r == Update(shadow[h], State(warp[h]), o, TRUE) IN
         /\ shadow' = [shadow EXCEPT ![h] = r.w]
         /\ IF r.err \/ es[h].ctxDone \/ rootDone
            THEN /\ es' = EndpointCancel(es, h)
                 /\ spc' = [spc EXCEPT ![h] = "exit"]
            ELSE UNCHANGED <<es, spc>>
    /\ UNCHANGED <<link, updateC, dataW, rootDone, userErr, css, inited,
                   first, cur, cpc, epc, fpc, wpc, apc, ptyIn, cmd, res,
                   clientDataC, hostOut, clink, hsl, ppc, snapQ, smx, dwin>>
    /\ UNCHANGED relayVars

\* The state loop fails to decode: the session context is cancelled.  (The
\* step is left out once the context is cancelled: it changes nothing then.)
StateLoopFail(h) ==
    /\ spc[h] = "decode"
    /\ ~es[h].ctxDone
    /\ ReadFails(h)
    /\ es' = EndpointCancel(es, h)
    /\ spc' = [spc EXCEPT ![h] = "exit"]
    /\ UNCHANGED <<shadow, link, updateC, dataW, sver, rootDone, userErr,
                   css, inited, first, cur, cpc, epc, fpc, wpc, apc, ptyIn,
                   cmd, res, clientDataC, hostOut, clink, hsl, ppc, snapQ,
                   smx, dwin>>
    /\ UNCHANGED relayVars

\* The dataC to pty multiplexer reads a chunk from the session's dataC and
\* asks the shadow, under the session lock, whether the host can receive it.
ForwardRead(h) ==
    /\ fpc[h] = "read"
    /\ ~ReadFails(h) /\ ~es[h].ctxDone /\ ~rootDone
    /\ nEvents < MaxEvents
    /\ nEvents' = nEvents + 1
    /\ fpc' = [fpc EXCEPT ![h] =
                 IF HostCanReceiveWrite(shadow[h]) THEN "write" ELSE "read"]
    /\ UNCHANGED <<shadow, es, link, updateC, dataW, sver, rootDone, userErr,
                   css, inited, first, cur, cpc, epc, spc, wpc, apc, ptyIn,
                   cmd, res, clientDataC, hostOut, clink, hsl, ppc, snapQ,
                   smx, dwin, hello, warps, warp, ss, errorC, stateC,
                   hostDataC, pc, wref, st, sl, upc, ust, usl, uver, hpc,
                   dpc, dmode, panicked, hostSet>>

\* The dataC to pty multiplexer writes the chunk to the pty.
ForwardWrite(h) ==
    /\ fpc[h] = "write"
    /\ ptyIn' = ptyIn + 1
    /\ fpc' = [fpc EXCEPT ![h] = "read"]
    /\ UNCHANGED <<shadow, es, link, updateC, dataW, sver, rootDone, userErr,
                   css, inited, first, cur, cpc, epc, spc, wpc, apc, cmd,
                   res, clientDataC, hostOut, clink, hsl, ppc, snapQ, smx,
                   dwin>>
    /\ UNCHANGED relayVars

\* plex.Run returns, on a failed read or a done context, and the goroutine
\* tears the session down.  (The step is left out once the session is torn
\* down, it changes nothing then, and the goroutine is not followed further:
\* no read succeeds on a torn down session.)
ForwardExit(h) ==
    /\ fpc[h] = "read"
    /\ ~es[h].tornDown
    /\ ReadFails(h) \/ es[h].ctxDone \/ rootDone
    /\ es' = EndpointTearDown(es, h)
    /\ UNCHANGED <<shadow, link, updateC, dataW, sver, rootDone, userErr,
                   css, inited, first, cur, cpc, epc, spc, fpc, wpc, apc,
                   ptyIn, cmd, res, clientDataC, hostOut, clink, hsl, ppc,
                   snapQ, smx, dwin>>
    /\ UNCHANGED relayVars

\* The SIGWINCH goroutine, a signal and the turn of its loop that follows: it
\* leaves the loop, and cancels the root context, when the attached session is
\* torn down; otherwise it sets the size and sends a HostUpdate on the attached
\* session, ignoring errors, and waits for the next signal.
WinchLoop ==
    /\ wpc = "wait"
    /\ nEvents < MaxEvents
    /\ nEvents' = nEvents + 1
    /\ IF css # Nil /\ es[css].tornDown
       THEN /\ rootDone' = TRUE
            /\ wpc' = "done"
            /\ UNCHANGED updateC
       ELSE /\ updateC' = IF css = Nil THEN updateC
                          ELSE SendHostUpdate(css, SizeUpdate(css, 2)).updateC
            /\ UNCHANGED <<rootDone, wpc>>
    /\ UNCHANGED <<shadow, es, link, dataW, sver, userErr, css, inited,
                   first, cur, cpc, epc, spc, fpc, apc, ptyIn, cmd, res,
                   clientDataC, hostOut, clink, hsl, ppc, snapQ, smx, dwin,
                   hello, warps, warp, ss, errorC, stateC, hostDataC, pc,
                   wref, st, sl, upc, ust, usl, uver, hpc, dpc, dmode,
                   panicked, hostSet>>

\* The pty to dataC multiplexer: a chunk of shell output is written to the
\* dataC of the attached session.
PtyOutput ==
    /\ ~rootDone
    /\ nEvents < MaxEvents
    /\ nEvents' = nEvents + 1
    /\ css # Nil
    /\ dataW' = WriteDataC(css)
    /\ UNCHANGED <<shadow, es, link, updateC, sver, rootDone, userErr, css,
                   inited, first, cur, cpc, epc, spc, fpc, wpc, apc, ptyIn,
                   cmd, res, clientDataC, hostOut, clink, hsl, ppc, snapQ,
                   smx, dwin, hello, warps, warp, ss, errorC, stateC,
                   hostDataC, pc, wref, st, sl, upc, ust, usl, uver, hpc,
                   dpc, dmode, panicked, hostSet>>

\* Srv.executeAuthorize / Srv.executeRevoke of the local command server, up
\* to SetMode: with the server lock taken, a session attached and the user in
\* the shadow, ShellWrite is added to (grant) or removed from its mode.
ExecuteSetMode ==
    /\ inited /\ ~rootDone
    /\ apc = "idle"
    /\ nEvents < MaxEvents
    /\ nEvents' = nEvents + 1
    /\ \E u \in Users, grant \in BOOLEAN :
         IF css = Nil \/ u \notin DOMAIN shadow[css].users
         THEN UNCHANGED <<shadow, es, apc>>
         ELSE LET mode == shadow[css].users[u].mode IN
              /\ es' = [es EXCEPT ![css].granted =
                                     @ \/ (grant /\ ~shadow[css].users[u].hosting)]
              /\ shadow' =
                   [shadow EXCEPT ![css] =
                      SetMode(@, u,
                              IF grant THEN ModeOr(mode, ModeShellWrite)
                              ELSE mode - (IF HasMode(mode, ModeShellWrite)
                                           THEN ModeShellWrite ELSE 0)).w]
              /\ apc' = "send"
    /\ UNCHANGED <<link, updateC, dataW, sver, rootDone, userErr, css,
                   inited, first, cur, cpc, epc, spc, fpc, wpc, ptyIn, cmd,
                   res, clientDataC, hostOut, clink, hsl, ppc, snapQ, smx,
                   dwin, hello, warps, warp, ss, errorC, stateC, hostDataC,
                   pc, wref, st, sl, upc, ust, usl, uver, hpc, dpc, dmode,
                   panicked, hostSet>>

\* Srv.executeAuthorize / Srv.executeRevoke, SendHostUpdate with the modes of
\* the shadow, and the reply; the server lock is released.
ExecuteSend ==
    /\ apc = "send"
    /\ updateC' = SendHostUpdate(css, ModesUpdate(css)).updateC
    /\ apc' = "idle"
    /\ UNCHANGED <<shadow, es, link, dataW, sver, rootDone, userErr, css,
                   inited, first, cur, cpc, epc, spc, fpc, wpc, ptyIn, cmd,
                   res, clientDataC, hostOut, clink, hsl, ppc, snapQ, smx,
                   dwin>>
    /\ UNCHANGED relayVars

\* ------------------------------------------- the relay, as `warp open` sees it
\* The update consumer decodes the HostUpdate the endpoint sent: as
\* HostUpdateDecode, for the update at the head of updateC.
HostUpdateReceive(h) ==
    /\ Running
    /\ upc[h] = "decode"
    /\ updateC[h] # <<>>
    /\ ~RelayReadFails(h)
    /\ updateC' = [updateC EXCEPT ![h] = Tail(@)]
    /\ LET u == Head(updateC[h]) IN
         IF ValidUpdate(warp[h], h, u)
         THEN /\ warp' = [warp EXCEPT ![h] = ApplyUpdate(warp[h], u)]
              /\ uver' = [uver EXCEPT ![h] = warp'[h].ver]
              /\ hostSet' =
                   [hostSet EXCEPT ![h] =
                      [x \in Users |->
                         IF x \in DOMAIN u.Modes
                              /\ x \in DOMAIN warp[h].shellClients
                         THEN u.Modes[x] ELSE @[x]]]
              /\ upc' = [upc EXCEPT ![h] = "u3"]
              /\ UNCHANGED <<errorC, ss>>
         ELSE /\ errorC' = SendError(errorC, ss, h, "invalid_host_update")
              /\ ss' = Cancel(ss, {h})
              /\ upc' = [upc EXCEPT ![h] = "mismatch"]
              /\ UNCHANGED <<warp, hostSet, uver>>
    /\ UNCHANGED <<shadow, es, link, dataW, sver, rootDone, userErr, css,
                   inited, first, cur, cpc, epc, spc, fpc, wpc, apc, ptyIn,
                   cmd, res, clientDataC, hostOut, clink, hsl, ppc, snapQ,
                   smx, dwin, hello, warps, stateC, hostDataC, pc, wref, st,
                   sl, ust, usl, hpc, dpc, dmode, panicked, nEvents>>

\* A shell client joins a mapped warp: Srv.handleShellClient and
\* Warp.handleClient up to <-ss.ctx.Done(), with updateHost and
\* updateShellClients, in one step.
ShellClientJoins(c) ==
    /\ Running
    /\ pc[c] = "new"
    /\ hello[c].type = SsTpShellClient
    /\ Mapped(c)
    /\ LET h == warps[hello[c].warp]
           w == AddClient(warp[h], c)
       IN  /\ wref' = [wref EXCEPT ![c] = h]
           /\ ss' = Cancel(ss, Conflicting(warp[h], c))
           /\ warp' = [warp EXCEPT ![h] = w]
           /\ hostSet' =
                IF hello[c].From.User \in DOMAIN w.shellClients
                     \ DOMAIN warp[h].shellClients
                THEN [hostSet EXCEPT ![h][hello[c].From.User] = NoMode]
                ELSE hostSet
           /\ stateC' = Encode(Encode(stateC, {w.host.session}, State(w)),
                               Sessions(w), State(w))
    /\ dpc' = [dpc EXCEPT ![c] = "read"]
    /\ pc' = [pc EXCEPT ![c] = "wait"]
    /\ UNCHANGED <<shadow, es, link, updateC, dataW, sver, rootDone, userErr,
                   css, inited, first, cur, cpc, epc, spc, fpc, wpc, apc,
                   ptyIn, cmd, res, clientDataC, hostOut, clink, hsl, ppc,
                   snapQ, smx, dwin, hello, warps, errorC, hostDataC, st, sl,
                   upc, ust, usl, uver, hpc, dmode, panicked, nEvents>>

\* A shell client whose context is done leaves: Warp.handleClient from
\* <-ss.ctx.Done() on, with updateHost and updateShellClients, and the
\* deferred ss.TearDown() of Srv.handle, in one step.
ShellClientLeaves(c) ==
    /\ Running
    /\ pc[c] = "wait"
    /\ c \in Clients
    /\ ss[c].ctxDone
    /\ IF CleanupPanics(warp[wref[c]], c)
       THEN /\ panicked' = TRUE
            /\ UNCHANGED <<warp, stateC, ss, pc>>
       ELSE LET w == RemoveClient(warp[wref[c]], c) IN
            /\ panicked' = panicked
            /\ warp' = [warp EXCEPT ![wref[c]] = w]
            /\ stateC' = Encode(Encode(stateC, {w.host.session}, State(w)),
                                Sessions(w), State(w))
            /\ ss' = TearDown(ss, c)
            /\ pc' = [pc EXCEPT ![c] = "done"]
    /\ UNCHANGED <<shadow, es, link, updateC, dataW, sver, rootDone, userErr,
                   css, inited, first, cur, cpc, epc, spc, fpc, wpc, apc,
                   ptyIn, cmd, res, clientDataC, hostOut, clink, hsl, ppc,
                   snapQ, smx, dwin, hello, warps, errorC, hostDataC, wref,
                   st, sl, upc, ust, usl, uver, hpc, dpc, dmode, nEvents,
                   hostSet>>

\* A task of the relay is the first to fail reading from the host session h.
RelayNotices(h) == RelayReadFails(h) /\ ~ss[h].ctxDone

\* `warp open` with a relay that serves its connections and one shell client.
InitOpen ==
    /\ RelayInit({ [c \in Conn |->
                      IF c \in Hosts THEN HostHelloMsg(c)
                      ELSE IF c = "c1" THEN ClientHelloC1 ELSE NoHello] })
    /\ shadow = [c \in Conn |-> NoWarpState]
    /\ es = [h \in Hosts |-> NewEndpoint]
    /\ link = [h \in Hosts |-> "none"]
    /\ updateC = [h \in Hosts |-> <<>>]
    /\ dataW = [h \in Hosts |-> 0]
    /\ sver = [h \in Hosts |-> NoSnapshot]
    /\ rootDone = FALSE
    /\ userErr = Nil
    /\ css = Nil
    /\ inited = FALSE
    /\ first = TRUE
    /\ cur = "h1"
    /\ cpc = "dial"
    /\ epc = [h \in Hosts |-> "off"]
    /\ spc = [h \in Hosts |-> "off"]
    /\ fpc = [h \in Hosts |-> "off"]
    /\ wpc = "wait"
    /\ apc = "idle"
    /\ ptyIn = 0
    /\ cmd = NoCommand
    /\ res = NoResult

\* The goroutines of `warp open` and of its sessions, and the relay: the
\* transport of the first connection may fail, the second connection being the
\* reconnection; a host hello is handled once the endpoint has sent it with its
\* initial update, and the relay's reads of a host session fail once its
\* transport has.
NextOpen ==
    \/ LinkFail("h1")
    \/ ConnLoopOpen
    \/ ConnLoopDialFail
    \/ ManageFirstState
    \/ ManageFirstStateFail
    \/ ManageAttach
    \/ ManageDone
    \/ ManageDetach
    \/ ManageReturn
    \/ \E h \in Hosts : ErrorListen(h)
    \/ \E h \in Hosts : ErrorListenFail(h)
    \/ \E h \in Hosts : StateLoop(h)
    \/ \E h \in Hosts : StateLoopFail(h)
    \/ \E h \in Hosts : ForwardRead(h)
    \/ \E h \in Hosts : ForwardWrite(h)
    \/ \E h \in Hosts : ForwardExit(h)
    \/ WinchLoop
    \/ PtyOutput
    \/ ExecuteSetMode
    \/ ExecuteSend
    \/ \E h \in Hosts : HostUpdateReceive(h)
    \/ \E h \in Hosts : es[h].greeted /\ SrvHandleHost(h)
    \/ \E h \in Hosts : SrvRejectHost(h)
    \/ \E h \in Hosts : RelayNotices(h) /\ HostUpdateDecodeFail(h)
    \/ \E h \in Hosts : RelayNotices(h) /\ HostDataReadFail(h)
    \/ \E h \in Hosts : HostCancelClients(h)
    \/ \E h \in Hosts : SrvCleanupWarp(h)
    \/ \E c \in Conn : SrvTearDown(c)
    \/ \E c \in Conn : UpdateAll(c)
    \/ \E h \in Hosts : ConsumerUpdateAll(h)
    \/ \E c \in Clients : ShellClientJoins(c)
    \/ \E c \in Clients : ShellClientLeaves(c)

SpecOpen == InitOpen /\ [][NextOpen]_vars


\* The session of a host, attached, with its dataC to pty multiplexer started.
InitForward ==
    /\ RelayInit({ [c \in Conn |->
                      IF c = "h1" THEN HostHelloMsg(c) ELSE NoHello] })
    /\ shadow = [c \in Conn |->
                   IF c = "h1" THEN NewWarpState(hello[c]) ELSE NoWarpState]
    /\ es = [h \in Hosts |->
               IF h = "h1" THEN [NewEndpoint EXCEPT !.greeted = TRUE]
               ELSE NewEndpoint]
    /\ link = [h \in Hosts |-> IF h = "h1" THEN "up" ELSE "none"]
    /\ updateC = [h \in Hosts |-> <<>>]
    /\ dataW = [h \in Hosts |-> 0]
    /\ sver = [h \in Hosts |-> NoSnapshot]
    /\ rootDone = FALSE
    /\ userErr = Nil
    /\ css = "h1"
    /\ inited = TRUE
    /\ first = TRUE
    /\ cur = "h1"
    /\ cpc = "wait"
    /\ epc = [h \in Hosts |-> "off"]
    /\ spc = [h \in Hosts |-> "off"]
    /\ fpc = [h \in Hosts |-> IF h = "h1" THEN "read" ELSE "off"]
    /\ wpc = "off"
    /\ apc = "off"
    /\ ptyIn = 0
    /\ cmd = NoCommand
    /\ res = NoResult

\* The dataC to pty multiplexer of the host under any snapshots, any authorize
\* and revoke, and any chunks from the relay.
NextForward ==
    \/ UpdateState("h1")
    \/ AuthorizeSetMode("h1")
    \/ RevokeSetMode("h1")
    \/ ForwardRead("h1")
    \/ ForwardWrite("h1")

SpecForward == InitForward /\ [][NextForward]_vars

\* ------------------------------------------------- local command server
\* warp.Command types; CmdTpOther stands for any other type.
CmdTpState == "state"
CmdTpAuthorize == "authorize"
CmdTpRevoke == "revoke"
CmdTpOther == "other"

\* The user tokens a command may name: two users, the user of the host and a
\* token no warp knows.
ArgTokens == {"ua", "ub", HostUser, "ux"}
\* The argument lists of a command: no, one or two tokens.
ArgLists ==
    {<<>>} \cup { <<a>> : a \in ArgTokens }
           \cup { <<a, b>> : a \in ArgTokens, b \in ArgTokens }

\* The commands Srv.handle may decode.
Commands ==
    { [type |-> t, args |-> <<>>] : t \in {CmdTpState, CmdTpOther} }
      \cup { [type |-> t, args |-> a] :
               t \in {CmdTpAuthorize, CmdTpRevoke}, a \in ArgLists }

\* A faulty ProtocolUser: the mode is left at its zero value.
ProtocolUserNoMode(u) == [Token |-> u.token, Mode |-> 0, Hosting |-> u.hosting]
\* UserState.ProtocolUser
ProtocolUser(u) == [Token |-> u.token, Mode |-> u.mode, Hosting |-> u.hosting]

\* WarpState.ProtocolState
ProtocolState(w) ==
    [Warp |-> w.token, WindowSize |-> w.windowSize,
     Users |-> [t \in DOMAIN w.users |-> ProtocolUser(w.users[t])]]

\* Revoke.Execute: the argument lists the revoke command may send after a
\* state command returned state: the tokens of the users that are not hosting
\* and are named by arg or, when arg is empty, have ShellWrite, in the order
\* of a range over the map.
RevokeCliArgs(state, arg) ==
    Orders({ t \in DOMAIN state.Users :
               /\ ~state.Users[t].Hosting
               /\ \/ state.Users[t].Token = arg
                  \/ arg = "" /\ HasMode(state.Users[t].Mode, ModeShellWrite) })

\* The SessionState of a result when no session is attached: the warp token of
\* the server only.
DisconnectedState ==
    [Warp |-> WarpToken, WindowSize |-> 0, Users |-> EmptyMap]

\* WarpState.GetMode
GetMode(w, user) ==
    IF user \notin DOMAIN w.users THEN [err |-> TRUE, mode |-> 0]
    ELSE [err |-> FALSE, mode |-> w.users[user].mode]

\* mode - mode & ModeShellWrite
ClearWrite(mode) ==
    mode - (IF HasMode(mode, ModeShellWrite) THEN ModeShellWrite ELSE 0)

\* A faulty executeAuthorize: the mode is set to ShellWrite alone.
AuthorizeArgsSetsWrite(w, args) ==
    IF Len(args) # 1 THEN [code |-> "user_token_required", w |-> w]
    ELSE IF args[1] \notin DOMAIN w.users
    THEN [code |-> "user_unknown", w |-> w]
    ELSE [code |-> "", w |-> SetMode(w, args[1], ModeShellWrite).w]
\* Srv.executeAuthorize from the test of len(cmd.Args) to SetMode: the error
\* code of the result ("" for none) and the shadow.
AuthorizeArgs(w, args) ==
    IF Len(args) # 1 THEN [code |-> "user_token_required", w |-> w]
    ELSE LET g == GetMode(w, args[1]) IN
         IF g.err THEN [code |-> "user_unknown", w |-> w]
         ELSE LET r == SetMode(w, args[1], ModeOr(g.mode, ModeShellWrite)) IN
              IF r.err THEN [code |-> "user_unknown", w |-> w]
              ELSE [code |-> "", w |-> r.w]

RECURSIVE RevokeArgs(_, _)

\* A faulty executeRevoke: only the first user of the list is revoked.
RevokeArgsFirstOnly(w, args) ==
    IF args = <<>> THEN [code |-> "", w |-> w]
    ELSE LET r == SetMode(w, Head(args), ModeShellRead) IN
         IF r.err THEN [code |-> "user_unknown", w |-> w]
         ELSE [code |-> "", w |-> r.w]
\* Srv.executeRevoke, the loop over cmd.Args: it returns at the first unknown
\* user, keeping what it changed.
RevokeArgs(w, args) ==
    IF args = <<>> THEN [code |-> "", w |-> w]
    ELSE LET g == GetMode(w, Head(args)) IN
         IF g.err THEN [code |-> "user_unknown", w |-> w]
         ELSE LET r == SetMode(w, Head(args), ClearWrite(g.mode)) IN
              IF r.err THEN [code |-> "user_unknown", w |-> w]
              ELSE RevokeArgs(r.w, Tail(args))

\* A faulty Srv.handle: authorize and revoke send their update after an error
\* too.
SrvExecuteAlwaysSends(c) ==
    /\ inited /\ ~rootDone
    /\ apc = "idle"
    /\ nEvents < MaxEvents
    /\ nEvents' = nEvents + 1
    /\ cmd' = c
    /\ IF c.type \notin {CmdTpAuthorize, CmdTpRevoke}
       THEN /\ res' = [NoResult EXCEPT
                         !.code = IF c.type = CmdTpState THEN ""
                                  ELSE "command_unknown"]
            /\ apc' = "reply"
            /\ UNCHANGED <<shadow, es>>
       ELSE IF css = Nil
       THEN /\ res' = [NoResult EXCEPT !.code = "disconnected"]
            /\ apc' = "reply"
            /\ UNCHANGED <<shadow, es>>
       ELSE LET r == IF c.type = CmdTpAuthorize
                     THEN AuthorizeArgs(shadow[css], c.args)
                     ELSE RevokeArgs(shadow[css], c.args)
            IN  /\ shadow' = [shadow EXCEPT ![css] = r.w]
                /\ es' = [es EXCEPT ![css].granted =
                            @ \/ ( /\ c.type = CmdTpAuthorize
                                   /\ r.code = ""
                                   /\ ~shadow[css].users[c.args[1]].hosting )]
                /\ res' = [NoResult EXCEPT !.code = r.code]
                /\ apc' = "send"
    /\ UNCHANGED <<link, updateC, dataW, sver, rootDone, userErr, css,
                   inited, first, cur, cpc, epc, spc, fpc, wpc, ptyIn,
                   clientDataC, hostOut, clink, hsl, ppc, snapQ, smx, dwin,
                   hello, warps, warp, ss, errorC, stateC, hostDataC, pc,
                   wref, st, sl, upc, ust, usl, uver, hpc, dpc, dmode,
                   panicked, hostSet>>
\* Srv.handle decodes a command and runs it up to its SendHostUpdate: state
\* and unknown commands take no lock; authorize and revoke take the server
\* lock, test the session and change the modes of the shadow, and keep the
\* lock for the send when no error occurred.
SrvExecute(c) ==
    /\ inited /\ ~rootDone
    /\ apc = "idle"
    /\ nEvents < MaxEvents
    /\ nEvents' = nEvents + 1
    /\ cmd' = c
    /\ IF c.type \notin {CmdTpAuthorize, CmdTpRevoke}
       THEN /\ res' = [NoResult EXCEPT
                         !.code = IF c.type = CmdTpState THEN ""
                                  ELSE "command_unknown"]
            /\ apc' = "reply"
            /\ UNCHANGED <<shadow, es>>
       ELSE IF css = Nil
       THEN /\ res' = [NoResult EXCEPT !.code = "disconnected"]
            /\ apc' = "reply"
            /\ UNCHANGED <<shadow, es>>
       ELSE LET r == IF c.type = CmdTpAuthorize
                     THEN AuthorizeArgs(shadow[css], c.args)
                     ELSE RevokeArgs(shadow[css], c.args)
            IN  /\ shadow' = [shadow EXCEPT ![css] = r.w]
                /\ es' = [es EXCEPT ![css].granted =
                            @ \/ ( /\ c.type = CmdTpAuthorize
                                   /\ r.code = ""
                                   /\ ~shadow[css].users[c.args[1]].hosting )]
                /\ res' = [NoResult EXCEPT !.code = r.code]
                /\ apc' = IF r.code = "" THEN "send" ELSE "reply"
    /\ UNCHANGED <<link, updateC, dataW, sver, rootDone, userErr, css,
                   inited, first, cur, cpc, epc, spc, fpc, wpc, ptyIn,
                   clientDataC, hostOut, clink, hsl, ppc, snapQ, smx, dwin,
                   hello, warps, warp, ss, errorC, stateC, hostDataC, pc,
                   wref, st, sl, upc, ust, usl, uver, hpc, dpc, dmode,
                   panicked, hostSet>>

\* Srv.executeAuthorize / Srv.executeRevoke: SendHostUpdate with the modes of
\* the shadow on the attached session; the server lock is released.
SrvSend ==
    /\ apc = "send"
    /\ LET r == SendHostUpdate(css, ModesUpdate(css)) IN
         /\ updateC' = r.updateC
         /\ res' = IF r.err THEN [res EXCEPT !.code = "update_failed"] ELSE res
    /\ apc' = "reply"
    /\ UNCHANGED <<shadow, es, link, dataW, sver, rootDone, userErr, css,
                   inited, first, cur, cpc, epc, spc, fpc, wpc, ptyIn, cmd,
                   clientDataC, hostOut, clink, hsl, ppc, snapQ, smx, dwin>>
    /\ UNCHANGED relayVars

\* A faulty Srv.handle: the reply holds the state of the last session, attached
\* or not.
SrvReplyLastSession ==
    /\ apc = "reply"
    /\ res' = IF cur # Nil
              THEN [res EXCEPT !.state = ProtocolState(shadow[cur])]
              ELSE [res EXCEPT !.state = DisconnectedState,
                               !.disconnected = TRUE]
    /\ apc' = "idle"
    /\ UNCHANGED <<shadow, es, link, updateC, dataW, sver, rootDone, userErr,
                   css, inited, first, cur, cpc, epc, spc, fpc, wpc, ptyIn,
                   cmd, clientDataC, hostOut, clink, hsl, ppc, snapQ, smx,
                   dwin>>
    /\ UNCHANGED relayVars
\* Srv.handle: under the server lock the state of the attached session, or
\* the mark of the disconnection, is put in the result, and the result is
\* sent.
SrvReply ==
    /\ apc = "reply"
    /\ res' = IF css # Nil
              THEN [res EXCEPT !.state = ProtocolState(shadow[css])]
              ELSE [res EXCEPT !.state = DisconnectedState,
                               !.disconnected = TRUE]
    /\ apc' = "idle"
    /\ UNCHANGED <<shadow, es, link, updateC, dataW, sver, rootDone, userErr,
                   css, inited, first, cur, cpc, epc, spc, fpc, wpc, ptyIn,
                   cmd, clientDataC, hostOut, clink, hsl, ppc, snapQ, smx,
                   dwin>>
    /\ UNCHANGED relayVars

\* The shadows a host session may have: the host, and any of two users with
\* or without ShellWrite.
SrvShadows ==
    LET base == NewWarpState(HostHelloMsg("h1")) IN
    { [base EXCEPT
         !.users = [u \in DOMAIN base.users \cup DOMAIN m |->
                      IF u \in DOMAIN m
                      THEN [token |-> u, mode |-> m[u], hosting |-> FALSE]
                      ELSE base.users[u]]] :
        m \in UNION { [U -> {ModeShellRead, DefaultHostMode}] :
                        U \in SUBSET {"ua", "ub"} } }

\* The local command server with a session attached.
InitSrv ==
    /\ RelayInit({ [c \in Conn |->
                      IF c = "h1" THEN HostHelloMsg(c) ELSE NoHello] })
    /\ \E w \in SrvShadows :
         /\ shadow = [c \in Conn |-> IF c = "h1" THEN w ELSE NoWarpState]
         /\ es = [h \in Hosts |->
                    IF h = "h1"
                    THEN [NewEndpoint EXCEPT
                            !.greeted = TRUE,
                            !.granted = HostCanReceiveWrite(w)]
                    ELSE NewEndpoint]
    /\ link = [h \in Hosts |-> IF h = "h1" THEN "up" ELSE "none"]
    /\ updateC = [h \in Hosts |-> <<>>]
    /\ dataW = [h \in Hosts |-> 0]
    /\ sver = [h \in Hosts |-> NoSnapshot]
    /\ rootDone = FALSE
    /\ userErr = Nil
    /\ css = "h1"
    /\ inited = TRUE
    /\ first = TRUE
    /\ cur = "h1"
    /\ cpc = "wait"
    /\ epc = [h \in Hosts |-> "off"]
    /\ spc = [h \in Hosts |-> "off"]
    /\ fpc = [h \in Hosts |-> IF h = "h1" THEN "read" ELSE "off"]
    /\ wpc = "off"
    /\ apc = "idle"
    /\ ptyIn = 0
    /\ cmd = NoCommand
    /\ res = NoResult

\* The local command server under any commands, while the attached session
\* fails, is torn down and is detached.
NextSrv ==
    \/ \E c \in Commands : SrvExecute(c)
    \/ SrvSend
    \/ SrvReply
    \/ LinkFail("h1")
    \/ ForwardExit("h1")
    \/ ManageDone
    \/ ManageDetach

SpecSrv == InitSrv /\ [][NextSrv]_vars

\* ------------------------------------------------- Warp.rcvHostData
\* The host data consumer reads a chunk from the host's dataC and
\* Warp.rcvHostData takes the sessions of the warp under the warp lock.
HostDataRead(h) ==
    /\ Running
    /\ hpc[h] = "read"
    /\ nEvents < MaxEvents
    /\ nEvents' = nEvents + 1
    /\ hostOut' = [hostOut EXCEPT ![h] = @ + 1]
    /\ hsl' = [hsl EXCEPT ![h] = Sessions(warp[h])]
    /\ hpc' = [hpc EXCEPT ![h] = IF hsl'[h] = {} THEN "read" ELSE "fan"]
    /\ UNCHANGED <<shadow, es, link, updateC, dataW, sver, rootDone, userErr,
                   css, inited, first, cur, cpc, epc, spc, fpc, wpc, apc,
                   ptyIn, cmd, res, clientDataC, clink, ppc, snapQ, smx,
                   dwin, hello, warps, warp, ss, errorC, stateC, hostDataC,
                   pc, wref, st, sl, upc, ust, usl, uver, dpc, dmode,
                   panicked, hostSet>>

\* A write on the dataC of the client session c fails: its transport failed,
\* or the relay closed the multiplexer of the session.
ClientWriteFails(c) == clink[c] = "down" \/ ss[c].tornDown

\* A faulty rcvHostData: the loop over the sessions ends at the first write
\* that fails.
HostDataWriteStopsAtError(h, c) ==
    /\ Running
    /\ hpc[h] = "fan"
    /\ c \in hsl[h]
    /\ IF ClientWriteFails(c)
       THEN /\ errorC' = SendError(errorC, ss, c, "data_send_failed")
            /\ ss' = Cancel(ss, {c})
            /\ UNCHANGED clientDataC
       ELSE /\ clientDataC' = [clientDataC EXCEPT ![c] = Append(@, hostOut[h])]
            /\ UNCHANGED <<errorC, ss>>
    /\ hsl' = [hsl EXCEPT ![h] = IF ClientWriteFails(c) THEN {} ELSE @ \ {c}]
    /\ hpc' = [hpc EXCEPT ![h] = IF hsl'[h] = {} THEN "read" ELSE "fan"]
    /\ UNCHANGED <<shadow, es, link, updateC, dataW, sver, rootDone, userErr,
                   css, inited, first, cur, cpc, epc, spc, fpc, wpc, apc,
                   ptyIn, cmd, res, hostOut, clink, ppc, snapQ, smx, dwin,
                   hello, warps, warp, stateC, hostDataC, pc, wref, st, sl,
                   upc, ust, usl, uver, dpc, dmode, panicked, nEvents,
                   hostSet>>
\* Warp.rcvHostData, one turn of the loop over the sessions: the chunk is
\* written to the dataC of the session, or the write fails, data_send_failed is
\* sent and the session is cancelled.  After the last session the consumer
\* reads again.
HostDataWrite(h, c) ==
    /\ Running
    /\ hpc[h] = "fan"
    /\ c \in hsl[h]
    /\ IF ClientWriteFails(c)
       THEN /\ errorC' = SendError(errorC, ss, c, "data_send_failed")
            /\ ss' = Cancel(ss, {c})
            /\ UNCHANGED clientDataC
       ELSE /\ clientDataC' = [clientDataC EXCEPT ![c] = Append(@, hostOut[h])]
            /\ UNCHANGED <<errorC, ss>>
    /\ hsl' = [hsl EXCEPT ![h] = @ \ {c}]
    /\ hpc' = [hpc EXCEPT ![h] = IF hsl'[h] = {} THEN "read" ELSE "fan"]
    /\ UNCHANGED <<shadow, es, link, updateC, dataW, sver, rootDone, userErr,
                   css, inited, first, cur, cpc, epc, spc, fpc, wpc, apc,
                   ptyIn, cmd, res, hostOut, clink, ppc, snapQ, smx, dwin,
                   hello, warps, warp, stateC, hostDataC, pc, wref, st, sl,
                   upc, ust, usl, uver, dpc, dmode, panicked, nEvents,
                   hostSet>>

\* The transport of a client connection fails.
ClientLinkFail(c) ==
    /\ Running
    /\ hello[c].type # "none"
    /\ clink[c] = "up"
    /\ clink' = [clink EXCEPT ![c] = "down"]
    /\ UNCHANGED <<shadow, es, link, updateC, dataW, sver, rootDone, userErr,
                   css, inited, first, cur, cpc, epc, spc, fpc, wpc, apc,
                   ptyIn, cmd, res, clientDataC, hostOut, hsl, ppc, snapQ,
                   smx, dwin>>
    /\ UNCHANGED relayVars

\* A host and two clients: c2 is a second session of the user of c1, a session
\* with the session token of c1, another user, or the host's own user.
HellosFanout ==
    { [c \in Conn |->
         IF c = "h1" THEN HostHelloMsg(c)
         ELSE IF c = "h2" THEN NoHello
         ELSE IF c = "c1" THEN ClientHelloC1 ELSE h2] :
      h2 \in ClientHelloC2 }

InitFanout == InitWith(HellosFanout)

\* The relay with the fan-out of the host's output, while clients join, fail
\* and leave and the host leaves; the transport that fails is that of c2.
NextFanout ==
    \/ \E h \in Hosts : SrvHandleHost(h)
    \/ \E c \in Clients : SrvHandleShellClient(c)
    \/ \E c \in Clients : SrvRejectShellClient(c)
    \/ \E c \in Clients : WarpHandleClient(c)
    \/ \E c \in Conn : UpdateAll(c)
    \/ \E c \in Conn : SrvTearDown(c)
    \/ \E h \in Hosts : HostCancelClients(h)
    \/ \E h \in Hosts : SrvCleanupWarp(h)
    \/ \E h \in Hosts : HostDataReadFail(h)
    \/ \E c \in Clients : ClientCleanup(c)
    \/ \E c \in Clients : ClientDataReadFail(c)
    \/ \E h \in Hosts : HostDataRead(h)
    \/ \E h \in Hosts : \E c \in Clients : HostDataWrite(h, c)
    \/ ClientLinkFail("c2")

SpecFanout == InitFanout /\ [][NextFanout]_vars

\* ------------------------------------------------- Srv.handle, other roles
\* SsTpChatClient: a session type Srv.handle has no case for.
SsTpChatClient == "chat"

\* Srv.handle, a hello that is neither a host's nor a shell client's: the
\* switch has no case for it, err stays nil, the handler returns and the
\* deferred ss.TearDown() runs.
SrvHandleOther(c) ==
    /\ Running
    /\ pc[c] = "new"
    /\ hello[c].type \notin {"none", SsTpHost, SsTpShellClient}
    /\ ss' = TearDown(ss, c)
    /\ pc' = [pc EXCEPT ![c] = "done"]
    /\ UNCHANGED <<shadow, es, link, updateC, dataW, sver, rootDone, userErr,
                   css, inited, first, cur, cpc, epc, spc, fpc, wpc, apc,
                   ptyIn, cmd, res, clientDataC, hostOut, clink, hsl, ppc,
                   snapQ, smx, dwin, hello, warps, warp, errorC, stateC,
                   hostDataC, wref, st, sl, upc, ust, usl, uver, hpc, dpc,
                   dmode, panicked, nEvents, hostSet>>

\* A host, a shell client and a chat client of the same warp.
HellosRoles ==
    { [c \in Conn |->
         IF c = "h1" THEN HostHelloMsg(c)
         ELSE IF c = "c1" THEN ClientHelloC1
         ELSE IF c = "c2"
         THEN [type |-> SsTpChatClient, warp |-> WarpToken,
               From |-> [Token |-> "t2", User |-> "ub", Secret |-> "k"]]
         ELSE NoHello] }

InitRoles == InitWith(HellosRoles)

\* The relay with a connection of each role.
NextRoles ==
    \/ Step
    \/ \E c \in Conn : UpdateAll(c)
    \/ \E h \in Hosts : ConsumerUpdateAll(h)
    \/ \E c \in Conn : SrvHandleOther(c)

SpecRoles == InitRoles /\ [][NextRoles]_vars

\* ------------------------------------------- the host data producer
\* Warp.handleHost, "Send data to host": the goroutine
\*     for { select { case buf := <-w.data: ... break
\*                    case <-ss.ctx.Done(): break
\*                    default: } }
\*     ss.cancel()
\* ppc is its position: "off" before it runs, "select" at the select
\* statement, "break" at a break statement.  A break statement without a label
\* ends the select statement it is in, so the for statement goes on; no
\* statement leaves the loop, and the position "exit" after it is never taken.
\* The default case changes nothing and is left out.

\* What a write on the dataC of the host session h may return: an error (TRUE)
\* once the relay closed the multiplexer of the session or a read of that
\* sub-stream has failed; before that an error or none, as the transport may
\* have failed and the write be the first to find out.
HostWriteFails(h) ==
    IF ss[h].tornDown \/ hpc[h] = "exit" THEN {TRUE} ELSE BOOLEAN

\* The goroutine starts to run once Warp.handleHost has started it.
ProducerStart(h) ==
    /\ Running
    /\ ppc[h] = "off"
    /\ h \in DOMAIN warp
    /\ ppc' = [ppc EXCEPT ![h] = "select"]
    /\ UNCHANGED <<shadow, es, link, updateC, dataW, sver, rootDone, userErr,
                   css, inited, first, cur, cpc, epc, spc, fpc, wpc, apc,
                   ptyIn, cmd, res, clientDataC, hostOut, clink, hsl, snapQ,
                   smx, dwin>>
    /\ UNCHANGED relayVars

\* case buf := <-w.data: the rendezvous with the client data consumer that is
\* sending on w.data, and the write to the host's dataC; a failed write sends
\* data_send_failed and reaches the break statement.
ProducerReceive(h, c) ==
    /\ Running
    /\ ppc[h] = "select"
    /\ dpc[c] = "send"
    /\ wref[c] = h
    /\ dpc' = [dpc EXCEPT ![c] = "read"]
    /\ \E failed \in HostWriteFails(h) :
       IF failed
       THEN /\ errorC' = SendError(errorC, ss, h, "data_send_failed")
            /\ ppc' = [ppc EXCEPT ![h] = "break"]
            /\ UNCHANGED hostDataC
       ELSE /\ hostDataC' = [hostDataC EXCEPT ![h] =
                               Append(@, [from |-> c, mode |-> dmode[c]])]
            /\ UNCHANGED <<errorC, ppc>>
    /\ UNCHANGED <<shadow, es, link, updateC, dataW, sver, rootDone, userErr,
                   css, inited, first, cur, cpc, epc, spc, fpc, wpc, apc,
                   ptyIn, cmd, res, clientDataC, hostOut, clink, hsl, snapQ,
                   smx, dwin, hello, warps, warp, ss, stateC, pc, wref, st,
                   sl, upc, ust, usl, uver, hpc, dmode, panicked, nEvents,
                   hostSet>>

\* case <-ss.ctx.Done(): the break statement is reached.
ProducerCtxDone(h) ==
    /\ Running
    /\ ppc[h] = "select"
    /\ ss[h].ctxDone
    /\ ppc' = [ppc EXCEPT ![h] = "break"]
    /\ UNCHANGED <<shadow, es, link, updateC, dataW, sver, rootDone, userErr,
                   css, inited, first, cur, cpc, epc, spc, fpc, wpc, apc,
                   ptyIn, cmd, res, clientDataC, hostOut, clink, hsl, snapQ,
                   smx, dwin>>
    /\ UNCHANGED relayVars

\* The break statement ends the select statement; the for statement runs the
\* select statement again.
ProducerBreak(h) ==
    /\ Running
    /\ ppc[h] = "break"
    /\ ppc' = [ppc EXCEPT ![h] = "select"]
    /\ UNCHANGED <<shadow, es, link, updateC, dataW, sver, rootDone, userErr,
                   css, inited, first, cur, cpc, epc, spc, fpc, wpc, apc,
                   ptyIn, cmd, res, clientDataC, hostOut, clink, hsl, snapQ,
                   smx, dwin>>
    /\ UNCHANGED relayVars

HellosProducer ==
    { [c \in Conn |->
         IF c = "h1" THEN HostHelloMsg(c)
         ELSE IF c = "c1" THEN ClientHelloC1 ELSE NoHello] }

InitProducer == InitWith(HellosProducer)

\* The relay with one host and one client, the host data producer taken
\* statement by statement.
NextProducer ==
    \/ \E h \in Hosts : SrvHandleHost(h)
    \/ \E c \in Clients : SrvHandleShellClient(c)
    \/ \E c \in Clients : SrvRejectShellClient(c)
    \/ \E c \in Clients : WarpHandleClient(c)
    \/ \E c \in Conn : UpdateAll(c)
    \/ \E h \in Hosts : ConsumerUpdateAll(h)
    \/ \E c \in Conn : SrvTearDown(c)
    \/ \E h \in Hosts : HostCancelClients(h)
    \/ \E h \in Hosts : SrvCleanupWarp(h)
    \/ \E h \in Hosts : HostUpdateDecode(h)
    \/ \E h \in Hosts : HostDataReadFail(h)
    \/ \E c \in Clients : ClientCleanup(c)
    \/ \E c \in Clients : ClientDataRead(c)
    \/ \E h \in Hosts : ProducerStart(h)
    \/ \E h \in Hosts : \E c \in Clients : ProducerReceive(h, c)
    \/ \E h \in Hosts : ProducerCtxDone(h)
    \/ \E h \in Hosts : ProducerBreak(h)

\* The steps of the handler of the connection c (Srv.handle and what it
\* calls).
HandlerStep(c) ==
    \/ c \in Hosts /\ SrvHandleHost(c)
    \/ c \in Hosts /\ HostCancelClients(c)
    \/ c \in Hosts /\ SrvCleanupWarp(c)
    \/ c \in Clients /\ SrvHandleShellClient(c)
    \/ c \in Clients /\ SrvRejectShellClient(c)
    \/ c \in Clients /\ WarpHandleClient(c)
    \/ c \in Clients /\ ClientCleanup(c)
    \/ UpdateAll(c)
    \/ SrvTearDown(c)

\* The steps of the host data producer of the host session h.
ProducerStep(h) ==
    \/ ProducerStart(h)
    \/ \E c \in Clients : ProducerReceive(h, c)
    \/ ProducerCtxDone(h)
    \/ ProducerBreak(h)

\* Every goroutine that can take a step takes one in the end: the Go scheduler
\* runs each runnable goroutine.  What the peers send and when a transport
\* fails is left to them.  h1 and c1 are the connections that send a hello.
FairProducer ==
    /\ \A c \in {"h1", "c1"} : WF_vars(HandlerStep(c))
    /\ WF_vars(ConsumerUpdateAll("h1"))
    /\ WF_vars(ProducerStep("h1"))

SpecProducer == InitProducer /\ [][NextProducer]_vars /\ FairProducer

\* ------------------------------- the host's shadow and the warp record
\* A shell client joins a mapped warp: Srv.handleShellClient and
\* Warp.handleClient up to <-ss.ctx.Done() in one step, as ShellClientJoins;
\* the snapshot of updateHost is queued on the host session's stateC.
SyncJoin(c) ==
    /\ Running
    /\ pc[c] = "new"
    /\ hello[c].type = SsTpShellClient
    /\ Mapped(c)
    /\ LET h == warps[hello[c].warp]
           w == AddClient(warp[h], c)
       IN  /\ wref' = [wref EXCEPT ![c] = h]
           /\ ss' = Cancel(ss, Conflicting(warp[h], c))
           /\ warp' = [warp EXCEPT ![h] = w]
           /\ hostSet' =
                IF hello[c].From.User \in DOMAIN w.shellClients
                     \ DOMAIN warp[h].shellClients
                THEN [hostSet EXCEPT ![h][hello[c].From.User] = NoMode]
                ELSE hostSet
           /\ snapQ' = [snapQ EXCEPT ![h] = Append(@, State(w))]
           /\ stateC' = Encode(Encode(stateC, {w.host.session}, State(w)),
                               Sessions(w), State(w))
    /\ dpc' = [dpc EXCEPT ![c] = "read"]
    /\ pc' = [pc EXCEPT ![c] = "wait"]
    /\ UNCHANGED <<shadow, es, link, updateC, dataW, sver, rootDone, userErr,
                   css, inited, first, cur, cpc, epc, spc, fpc, wpc, apc,
                   ptyIn, cmd, res, clientDataC, hostOut, clink, hsl, ppc,
                   smx, dwin, hello, warps, errorC, hostDataC, st, sl, upc,
                   ust, usl, uver, hpc, dmode, panicked, nEvents>>

\* A shell client goes away: its data consumer fails to read, sends
\* data_receive_failed and cancels the session; Warp.handleClient from
\* <-ss.ctx.Done() on and the deferred ss.TearDown() follow, in one step, as
\* ShellClientLeaves; the snapshot of updateHost is queued on the host
\* session's stateC.
SyncLeave(c) ==
    /\ Running
    /\ pc[c] = "wait"
    /\ c \in Clients
    /\ dpc[c] = "read"
    /\ errorC' = SendError(errorC, ss, c, "data_receive_failed")
    /\ dpc' = [dpc EXCEPT ![c] = "exit"]
    /\ IF CleanupPanics(warp[wref[c]], c)
       THEN /\ panicked' = TRUE
            /\ ss' = Cancel(ss, {c})
            /\ UNCHANGED <<warp, stateC, pc, snapQ>>
       ELSE LET w == RemoveClient(warp[wref[c]], c) IN
            /\ panicked' = panicked
            /\ warp' = [warp EXCEPT ![wref[c]] = w]
            /\ snapQ' = [snapQ EXCEPT ![wref[c]] = Append(@, State(w))]
            /\ stateC' = Encode(Encode(stateC, {w.host.session}, State(w)),
                                Sessions(w), State(w))
            /\ ss' = TearDown(ss, c)
            /\ pc' = [pc EXCEPT ![c] = "done"]
    /\ UNCHANGED <<shadow, es, link, updateC, dataW, sver, rootDone, userErr,
                   css, inited, first, cur, cpc, epc, spc, fpc, wpc, apc,
                   ptyIn, cmd, res, clientDataC, hostOut, clink, hsl, ppc,
                   smx, dwin, hello, warps, hostDataC, wref, st, sl, upc,
                   ust, usl, uver, hpc, dmode, nEvents, hostSet>>

\* The state loop of the host session h: DecodeState takes the next snapshot
\* of stateC and WarpState.Update applies it to the shadow, as StateLoop.
SyncStateLoop(h) ==
    /\ spc[h] = "decode"
    /\ ~ReadFails(h)
    /\ snapQ[h] # <<>>
    /\ snapQ' = [snapQ EXCEPT ![h] = Tail(@)]
    /\ sver' = [sver EXCEPT ![h] = Head(snapQ[h]).ver]
    /\ \E o \in Orders(DOMAIN Head(snapQ[h]).Users) :
         LET r == Update(shadow[h], Head(snapQ[h]), o, TRUE) IN
         /\ shadow' = [shadow EXCEPT ![h] = r.w]
         /\ IF r.err \/ es[h].ctxDone \/ rootDone
            THEN /\ es' = EndpointCancel(es, h)
                 /\ spc' = [spc EXCEPT ![h] = "exit"]
            ELSE UNCHANGED <<es, spc>>
    /\ UNCHANGED <<link, updateC, dataW, rootDone, userErr, css, inited,
                   first, cur, cpc, epc, fpc, wpc, apc, ptyIn, cmd, res,
                   clientDataC, hostOut, clink, hsl, ppc, smx, dwin>>
    /\ UNCHANGED relayVars

\* The hellos: host h1 and two clients of user ua, each with its own session
\* token.
HellosSync ==
    { [c \in Conn |->
         IF c = "h1" THEN HostHelloMsg(c)
         ELSE IF c = "c1" THEN ClientHelloC1
         ELSE IF c = "c2"
              THEN [type |-> SsTpShellClient, warp |-> WarpToken,
                    From |-> [Token |-> "t2", User |-> "ua", Secret |-> "k"]]
         ELSE NoHello] }

\* `warp open` with its session h1 opened and attached: the relay has created
\* the warp and sent the first snapshot, the endpoint has applied it; no client
\* has connected.
InitSync ==
    /\ hello \in HellosSync
    /\ warps = [t \in WarpTokens |-> "h1"]
    /\ warp = Put(EmptyMap, "h1", NewWarp("h1"))
    /\ ss = [c \in Conn |-> [tornDown |-> FALSE, ctxDone |-> FALSE]]
    /\ errorC = [c \in Conn |-> <<>>]
    /\ stateC = [c \in Conn |-> IF c = "h1" THEN 0 ELSE NoSnapshot]
    /\ hostDataC = [h \in Hosts |-> <<>>]
    /\ pc = [c \in Conn |-> IF c = "h1" THEN "wait" ELSE "new"]
    /\ wref = [c \in Clients |-> Nil]
    /\ st = [c \in Conn |-> Nil]
    /\ sl = [c \in Conn |-> {}]
    /\ upc = [h \in Hosts |-> IF h = "h1" THEN "decode" ELSE "off"]
    /\ ust = [h \in Hosts |-> Nil]
    /\ usl = [h \in Hosts |-> {}]
    /\ uver = [h \in Hosts |-> 0]
    /\ hpc = [h \in Hosts |-> IF h = "h1" THEN "read" ELSE "off"]
    /\ dpc = [c \in Clients |-> "off"]
    /\ dmode = [c \in Clients |-> 0]
    /\ panicked = FALSE
    /\ nEvents = 0
    /\ hostSet = [h \in Hosts |-> [x \in Users |-> NoMode]]
    /\ clientDataC = [c \in Clients |-> <<>>]
    /\ hostOut = [h \in Hosts |-> 0]
    /\ clink = [c \in Clients |-> "up"]
    /\ hsl = [h \in Hosts |-> {}]
    /\ ppc = [h \in Hosts |-> "off"]
    /\ snapQ = [h \in Hosts |-> <<>>]
    /\ smx = [h \in Hosts |-> "free"]
    /\ dwin = [h \in Hosts |-> FALSE]
    /\ shadow = [c \in Conn |->
                   IF c = "h1"
                   THEN [NewWarpState(HostHelloMsg("h1")) EXCEPT
                           !.windowSize = InitialSize("h1")]
                   ELSE NoWarpState]
    /\ es = [h \in Hosts |->
               IF h = "h1" THEN [NewEndpoint EXCEPT !.greeted = TRUE]
               ELSE NewEndpoint]
    /\ link = [h \in Hosts |-> IF h = "h1" THEN "up" ELSE "none"]
    /\ updateC = [h \in Hosts |-> <<>>]
    /\ dataW = [h \in Hosts |-> 0]
    /\ sver = [h \in Hosts |-> IF h = "h1" THEN 0 ELSE NoSnapshot]
    /\ rootDone = FALSE
    /\ userErr = Nil
    /\ css = "h1"
    /\ inited = TRUE
    /\ first = TRUE
    /\ cur = "h1"
    /\ cpc = "wait"
    /\ epc = [h \in Hosts |-> IF h = "h1" THEN "decode" ELSE "off"]
    /\ spc = [h \in Hosts |-> IF h = "h1" THEN "decode" ELSE "off"]
    /\ fpc = [h \in Hosts |-> IF h = "h1" THEN "read" ELSE "off"]
    /\ wpc = "wait"
    /\ apc = "idle"
    /\ ptyIn = 0
    /\ cmd = NoCommand
    /\ res = NoResult

\* The host authorizes and revokes while clients of one user come and go; the
\* relay applies the host's updates and the endpoint the relay's snapshots,
\* each in the order sent.
NextSync ==
    \/ \E c \in Clients : SyncJoin(c)
    \/ \E c \in Clients : SyncLeave(c)
    \/ ExecuteSetMode
    \/ ExecuteSend
    \/ \E h \in Hosts : HostUpdateReceive(h)
    \/ \E h \in Hosts : ConsumerUpdateAll(h)
    \/ \E h \in Hosts : SyncStateLoop(h)

SpecSync == InitSync /\ [][NextSync]_vars

\* ------------------------------------- the endpoint session's mutex
\* Session.WriteDataC, called by the pty to dataC multiplexer of Open.Execute
\* for a chunk of shell output: ss.mutex is taken and, the session not being
\* torn down, ss.dataC.Write(data) is called with the mutex held.
PtyWriteDataC ==
    /\ ~rootDone
    /\ nEvents < MaxEvents
    /\ css # Nil
    /\ smx[css] = "free"
    /\ ~es[css].tornDown
    /\ smx' = [smx EXCEPT ![css] = "write"]
    /\ UNCHANGED <<shadow, es, link, updateC, dataW, sver, rootDone, userErr,
                   css, inited, first, cur, cpc, epc, spc, fpc, wpc, apc,
                   ptyIn, cmd, res, clientDataC, hostOut, clink, hsl, ppc,
                   snapQ, dwin>>
    /\ UNCHANGED relayVars

\* ss.dataC.Write returns and the deferred Unlock runs: with an error when the
\* transport is down; with the chunk written when the send window of the
\* sub-stream has room, which the chunk may use up.  With the window used up
\* and the transport up, the write stays blocked.
PtyWriteReturns(h) ==
    /\ smx[h] = "write"
    /\ link[h] # "up" \/ ~dwin[h]
    /\ smx' = [smx EXCEPT ![h] = "free"]
    /\ nEvents' = nEvents + 1
    /\ IF link[h] # "up"
       THEN UNCHANGED <<dataW, dwin>>
       ELSE /\ dataW' = [dataW EXCEPT ![h] = @ + 1]
            /\ \E full \in BOOLEAN : dwin' = [dwin EXCEPT ![h] = full]
    /\ UNCHANGED <<shadow, es, link, updateC, sver, rootDone, userErr, css,
                   inited, first, cur, cpc, epc, spc, fpc, wpc, apc, ptyIn,
                   cmd, res, clientDataC, hostOut, clink, hsl, ppc, snapQ,
                   hello, warps, warp, ss, errorC, stateC, hostDataC, pc,
                   wref, st, sl, upc, ust, usl, uver, hpc, dpc, dmode,
                   panicked, hostSet>>

\* The relay's host data consumer reads a chunk of the host's dataC that was
\* written and not read yet (ss.dataC.Read in Warp.handleHost, as
\* HostDataRead; no client session is registered): the window of the
\* sub-stream has room again.
RelayReadsData(h) ==
    /\ Running
    /\ hpc[h] = "read"
    /\ ~RelayReadFails(h)
    /\ hostOut[h] < dataW[h]
    /\ hostOut' = [hostOut EXCEPT ![h] = @ + 1]
    /\ dwin' = [dwin EXCEPT ![h] = FALSE]
    /\ UNCHANGED <<shadow, es, link, updateC, dataW, sver, rootDone, userErr,
                   css, inited, first, cur, cpc, epc, spc, fpc, wpc, apc,
                   ptyIn, cmd, res, clientDataC, clink, hsl, ppc, snapQ, smx>>
    /\ UNCHANGED relayVars

\* Open.Execute: the shell exits and the root context is cancelled.
ShellExits ==
    /\ ~rootDone
    /\ rootDone' = TRUE
    /\ UNCHANGED <<shadow, es, link, updateC, dataW, sver, userErr, css,
                   inited, first, cur, cpc, epc, spc, fpc, wpc, apc, ptyIn,
                   cmd, res, clientDataC, hostOut, clink, hsl, ppc, snapQ,
                   smx, dwin>>
    /\ UNCHANGED relayVars

\* ManageSession: <-ctx.Done(), then ss.TearDown(), which takes ss.mutex.
ManageTearDown ==
    /\ cpc = "wait"
    /\ es[cur].ctxDone \/ rootDone
    /\ smx[cur] = "free"
    /\ es' = EndpointTearDown(es, cur)
    /\ cpc' = "detach"
    /\ UNCHANGED <<shadow, link, updateC, dataW, sver, rootDone, userErr,
                   css, inited, first, cur, epc, spc, fpc, wpc, apc, ptyIn,
                   cmd, res, clientDataC, hostOut, clink, hsl, ppc, snapQ,
                   smx, dwin>>
    /\ UNCHANGED relayVars

\* ss.mutex of the attached session, if any, can be taken.
MutexFree == \A h \in Hosts : css = h => smx[h] = "free"

\* `warp open` with its session attached, the shell writing output, the
\* window changing, and the relay reading; each call of the session waits for
\* ss.mutex.
NextMutex ==
    \/ PtyWriteDataC
    \/ \E h \in Hosts : PtyWriteReturns(h)
    \/ \E h \in Hosts : RelayReadsData(h)
    \/ ShellExits
    \/ ManageTearDown
    \/ ManageDetach
    \/ ManageReturn
    \/ LinkFail("h1")
    \/ MutexFree /\ WinchLoop
    \/ \E h \in Hosts : HostUpdateReceive(h)
    \/ \E h \in Hosts : ConsumerUpdateAll(h)

\* The goroutines of `warp open` take a step when they can: a write that can
\* return returns, ManageSession goes on.  When the shell writes, when the
\* relay reads (it may itself be waiting for a client to read) and whether the
\* transport fails is not up to `warp open`.
FairMutex ==
    /\ WF_vars(PtyWriteReturns("h1"))
    /\ WF_vars(ManageTearDown)
    /\ WF_vars(ManageDetach)
    /\ WF_vars(ManageReturn)

SpecMutex == InitSync /\ [][NextMutex]_vars /\ FairMutex
\* ---------------------------------------------------------------- claims
\* The host session h is serving a warp: Srv.handleHost has mapped its token
\* and has not yet deleted the mapping.
Owns(h) == pc[h] \in {"h1", "h2", "h3", "h4", "h5", "wait", "cleanup"}

\* The client user records of the warp host h created.
ClientUsers(h) == DOMAIN warp[h].shellClients

\* C1: every chunk written to a host's dataC was read from a client whose
\* user mode, as read under the warp lock for that chunk, included ShellWrite,
\* and a client data consumer holds a chunk for the rendezvous only with such
\* a mode; a chunk read with a mode lacking ShellWrite goes nowhere.
C1_OnlyWritersReachHost ==
    /\ \A h \in Hosts : \A i \in 1..Len(hostDataC[h]) :
         HasMode(hostDataC[h][i].mode, ModeShellWrite)
    /\ \A c \in Clients :
         dpc[c] = "send" => HasMode(dmode[c], ModeShellWrite)

\* A chunk of a writer reached the host while another session of the warp is
\* read-only.
C1_ChunkDelivered ==
    \E h \in Hosts :
       /\ Len(hostDataC[h]) > 0
       /\ h \in DOMAIN warp
       /\ \E u \in ClientUsers(h) :
            ~HasMode(warp[h].shellClients[u].mode, ModeShellWrite)

\* C2: the host's mode is ShellRead|ShellWrite; a client user record no
\* accepted host update has changed since it was created has mode ShellRead
\* only; and a client user record has ShellWrite only if the last accepted
\* host update that set its mode since it was created gave it ShellWrite.
C2_WriteOnlyByHostGrant ==
    \A h \in DOMAIN warp :
       /\ warp[h].host.mode = 3
       /\ HasMode(warp[h].host.mode, ModeShellRead)
       /\ HasMode(warp[h].host.mode, ModeShellWrite)
       /\ \A u \in ClientUsers(h) :
            LET mode == warp[h].shellClients[u].mode IN
            /\ hostSet[h][u] = NoMode => mode = ModeShellRead
            /\ HasMode(mode, ModeShellWrite) =>
                 /\ hostSet[h][u] # NoMode
                 /\ HasMode(hostSet[h][u], ModeShellWrite)

\* A client user holds ShellWrite by a host update while another client user
\* of the warp, whose record no host update has changed, is read-only.
C2_WriterGranted ==
    \E h \in DOMAIN warp : \E u, v \in ClientUsers(h) :
       /\ hostSet[h][u] # NoMode
       /\ HasMode(warp[h].shellClients[u].mode, ModeShellWrite)
       /\ hostSet[h][v] = NoMode
       /\ warp[h].shellClients[v].mode = ModeShellRead

C4_RejectedHostLeavesWarp ==
    [][\A h \in Hosts :
         (pc[h] \in {"new", "in_use"} /\ pc'[h] \in {"in_use", "done"}
            /\ pc'[h] # pc[h]) =>
           /\ warps' = warps
           /\ warp' = warp
           /\ pc[h] = "new" => warps[hello[h].warp] \in Hosts \ {h}
           /\ \A c \in Conn \ {h} :
                ss'[c] = ss[c] /\ errorC'[c] = errorC[c] /\ pc'[c] = pc[c]
           /\ stateC' = stateC /\ upc' = upc /\ hpc' = hpc]_vars

\* The rejected session is torn down and the warp is still mapped to the first
\* host session, with a client attached.
C4_StillServedAfterReject ==
    \E g, h \in Hosts :
       /\ g # h
       /\ pc[h] = "done" /\ ss[h].tornDown /\ h \notin DOMAIN warp
       /\ warps[hello[h].warp] = g
       /\ ClientUsers(g) # {}

\* C5: a shell-client hello whose token is not mapped is rejected: the lookup
\* of an unmapped token leads to the rejection, which sends warp_unknown as
\* the only error of the session and tears the session down; neither step
\* creates or changes a mapping or a warp record.
C5_UnknownWarpRejected ==
    [][\A c \in Clients :
         /\ (pc[c] = "new" /\ pc'[c] # "new") =>
              /\ warps[hello[c].warp] = Nil => pc'[c] = "unknown"
              /\ warps' = warps /\ warp' = warp
         /\ (pc[c] = "unknown" /\ pc'[c] # "unknown") =>
              /\ pc'[c] = "done"
              /\ errorC'[c] = <<"warp_unknown">>
              /\ ss'[c].tornDown
              /\ wref'[c] = Nil
              /\ warps' = warps /\ warp' = warp]_vars

\* A client was rejected with warp_unknown and torn down.
C5_ClientRejected ==
    \E c \in Clients :
       /\ pc[c] = "done"
       /\ wref[c] = Nil
       /\ errorC[c] = <<"warp_unknown">>
       /\ ss[c].tornDown

\* C6: a client session does not stay attached to a warp that no longer has
\* a host: once the host's handler has cancelled the sessions of the warp and
\* the mapping is deleted, every session registered in the warp is cancelled.
C6_NoClientOutlivesHost ==
    \A h \in DOMAIN warp :
       pc[h] \in {"teardown", "done"} =>
          \A c \in Sessions(warp[h]) : ss[c].ctxDone

\* The client sessions in the session tables of the warp host h created.
Attached(h) ==
    UNION { Range(warp[h].shellClients[u].sessions) : u \in ClientUsers(h) }
      \cup Range(warp[h].host.sessions)

\* C7: the step in which the host's handler, its context cancelled, cancels
\* the client sessions still attached to the warp leaves host_disconnected on
\* the errorC of each of them that is not yet torn down.
C7_HostDisconnectedSent ==
    [][\A h \in Hosts :
         (pc[h] = "wait" /\ pc'[h] = "cleanup") =>
            \A c \in Attached(h) :
               ~ss[c].tornDown => "host_disconnected" \in Range(errorC'[c])]_vars

\* C8 as stated: a mismatching HostUpdate always has invalid_host_update
\* written to the host's errorC, cancels the host session and changes nothing
\* of the warp.
C8_MismatchAlwaysReported ==
    [][\A h \in Hosts :
         (upc[h] = "decode" /\ upc'[h] = "mismatch") =>
            /\ warp' = warp
            /\ ss'[h].ctxDone
            /\ errorC'[h] = Append(errorC[h], "invalid_host_update")]_vars

\* C8, amended: a mismatching HostUpdate changes nothing of the warp and
\* cancels the host session; invalid_host_update is written to the host's
\* errorC unless the session is already torn down, and then nothing is
\* written.  An update that is applied is never a mismatching one: no warp
\* carries the window size or the mode of a mismatching update.
C8_MismatchRejected ==
    [][\A h \in Hosts :
         /\ (upc[h] = "decode" /\ upc'[h] = "mismatch") =>
              /\ warp' = warp
              /\ ss'[h].ctxDone
              /\ errorC'[h] = IF ss[h].tornDown THEN errorC[h]
                              ELSE Append(errorC[h], "invalid_host_update")
         /\ (upc[h] = "decode" /\ upc'[h] \notin {"decode", "mismatch", "exit"}) =>
              /\ warp'[h].windowSize # BadSize
              /\ \A u \in DOMAIN warp'[h].shellClients :
                   warp'[h].shellClients[u].mode \notin Range(BadModes)]_vars

\* A mismatching update was rejected on a warp with a client attached:
\* invalid_host_update is on the host's errorC and the session is cancelled.
C8_MismatchSeen ==
    \E h \in DOMAIN warp :
       /\ upc[h] = "mismatch"
       /\ "invalid_host_update" \in Range(errorC[h])
       /\ ss[h].ctxDone
       /\ ClientUsers(h) # {}

\* No main task of the warp of h is in, or about to start, an updateHost;
\* updateShellClients: the host's handler waits, and each client's handler has
\* not joined, waits with its session not cancelled, or has left.
NoBroadcastPending(h) ==
    /\ pc[h] = "wait"
    /\ \A c \in Clients :
         \/ pc[c] \in {"new", "unknown", "teardown", "done"}
         \/ pc[c] = "wait" /\ ~ss[c].ctxDone

C10_SnapshotsInOrder ==
    [][\A c \in Conn : stateC'[c] >= stateC[c]]_vars

\* C11: on the host's shadow, whatever snapshot is applied with the hosting
\* role and in whatever order its users are ranged over, with or without an
\* error, a user that is not hosting has ShellWrite afterwards only if it had
\* it before (so only SetMode gives it), and a user the shadow did not know is
\* inserted with the default read-only mode.
C11_SnapshotsNeverGrantWrite ==
    \A h \in Hosts : \A s \in Snapshots : \A o \in Orders(DOMAIN s.Users) :
       shadow[h] # NoWarpState =>
          LET r == Update(shadow[h], s, o, TRUE).w IN
          \A u \in DOMAIN r.users :
             /\ (~r.users[u].hosting
                   /\ HasMode(r.users[u].mode, ModeShellWrite)) =>
                  /\ u \in DOMAIN shadow[h].users
                  /\ ~shadow[h].users[u].hosting
                  /\ HasMode(shadow[h].users[u].mode, ModeShellWrite)
             /\ u \notin DOMAIN shadow[h].users =>
                  r.users[u].mode = DefaultUserMode

\* A host's shadow took the user ua from a snapshot and the host authorized
\* it; the user ub, taken from a snapshot too, is read-only, and a snapshot
\* that gives ub ShellWrite applies without an error.
C11_SnapshotClaimsWrite ==
    LET w == shadow["h1"] IN
    /\ {"ua", "ub"} \subseteq DOMAIN w.users
    /\ w.users["ua"].mode = DefaultHostMode
    /\ w.users["ub"].mode = ModeShellRead
    /\ \E s \in Snapshots : \E o \in Orders(DOMAIN s.Users) :
          /\ "ub" \in DOMAIN s.Users
          /\ s.Users["ub"].Mode = DefaultHostMode
          /\ ~Update(w, s, o, TRUE).err

\* C12 (as the code has it): a chunk read from dataC is passed on to the pty
\* only if HostCanReceiveWrite() of the shadow was true when the multiplexer
\* tested it for that chunk, and a byte reaches the pty only on a session on
\* which the host has authorized a non-hosting user.
C12_PtyWriteWasAllowed ==
    [][ /\ \A h \in Hosts :
             (fpc[h] # "write" /\ fpc'[h] = "write")
                => HostCanReceiveWrite(shadow[h])
        /\ ptyIn' # ptyIn
             => \E h \in Hosts : fpc[h] = "write" /\ es[h].granted ]_vars

\* C12 witness: a chunk of the relay has reached the pty while a non-hosting
\* user had ShellWrite in the shadow.
C12_ChunkWritten ==
    /\ ptyIn > 0
    /\ HostCanReceiveWrite(shadow["h1"])

\* C12 as stated: a byte reaches the pty only while HostCanReceiveWrite() of
\* the shadow is true.
C12_PtyWriteWhileAllowed ==
    [][ ptyIn' # ptyIn
          => \E h \in Hosts :
                fpc[h] = "write" /\ HostCanReceiveWrite(shadow[h]) ]_vars

\* A non-hosting user has ShellWrite in the shadow of the endpoint session of h.
ShadowWriter(h) ==
    /\ shadow[h] # NoWarpState
    /\ HostCanReceiveWrite(shadow[h])

\* A shell client user has ShellWrite in the relay's record of the warp h made.
RelayWriter(h) ==
    /\ h \in DOMAIN warp
    /\ \E u \in DOMAIN warp[h].shellClients :
          HasMode(warp[h].shellClients[u].mode, ModeShellWrite)

\* C13: on a session on which the host has issued no authorize, a reconnected
\* session included, no non-hosting user has ShellWrite in the host's shadow
\* or in the relay's warp record: the grants of the previous session are not
\* carried over.
C13_ReconnectResetsGrants ==
    \A h \in Hosts : ~es[h].granted => ~ShadowWriter(h) /\ ~RelayWriter(h)

\* C13 witness: a writer was authorized on the first session and is in the
\* relay's record of it, the first session failed, and the second session is
\* attached with a shadow fed by the relay and no authorize on it.
C13_ReconnectedAfterGrant ==
    /\ es["h1"].granted
    /\ ShadowWriter("h1")
    /\ link["h1"] = "down"
    /\ css = "h2"
    /\ ~es["h2"].granted
    /\ sver["h2"] # NoSnapshot

\* C14 as stated, in its finite form: once the transport of the attached first
\* session has failed, and until the second session is attached, no error
\* becomes the user's error and the root context is not cancelled.
C14_SilentReconnect ==
    [][ ( /\ spc["h1"] # "off"
          /\ link["h1"] = "down"
          /\ spc["h2"] = "off"
          /\ ~rootDone
          /\ userErr = Nil )
        => (~rootDone' /\ userErr' = Nil) ]_vars

\* C15 as stated: the root context of `warp open` is cancelled only together
\* with an error taken from errC, never by a step that merely finds a session
\* failed or torn down.
C15_SessionFailureKeepsRoot ==
    [][(~rootDone /\ rootDone') => (userErr = Nil /\ userErr' # Nil)]_vars

\* C16: TearDown is idempotent on the endpoint session and on the relay
\* session: on a torn down session it changes nothing, tornDown stays set, and
\* cancel and the close of the multiplexer are invoked at most once, however
\* many workers tear the session down.
C16_TearDownIdempotent ==
    /\ [](\A h \in Hosts :
            /\ es[h].cancels <= 1
            /\ es[h].closes <= 1
            /\ es[h].tornDown => EndpointTearDown(es, h) = es
            /\ EndpointTearDown(EndpointTearDown(es, h), h)
                 = EndpointTearDown(es, h))
    /\ [](\A c \in Conn :
            /\ ss[c].tornDown => TearDown(ss, c) = ss
            /\ TearDown(TearDown(ss, c), c) = TearDown(ss, c))
    /\ [][\A h \in Hosts : es[h].tornDown => es'[h].tornDown]_vars
    /\ [][\A c \in Conn : ss[c].tornDown => ss'[c].tornDown]_vars

\* C16 witness: the first session was attached, was torn down at the end of
\* ManageSession and again by the deferred TearDown when ManageSession
\* returned, and the relay has torn its session of that connection down.
C16_TornDownTwice ==
    /\ spc["h1"] # "off"
    /\ cur = "h2"
    /\ es["h1"].tornDown
    /\ es["h1"].closes = 1
    /\ ss["h1"].tornDown

\* C17: on a torn down endpoint session SendHostUpdate and WriteDataC write
\* nothing and SendHostUpdate returns no error, whenever they are called and
\* whatever the state of the transport; no step appends to updateC or writes
\* to dataC of a torn down session.
C17_NoWriteAfterTearDown ==
    /\ [](\A h \in Hosts :
            es[h].tornDown =>
               /\ \A u \in {SizeUpdate(h, 2), ModesUpdate(h)} :
                     /\ ~SendHostUpdate(h, u).err
                     /\ SendHostUpdate(h, u).updateC = updateC
               /\ WriteDataC(h) = dataW)
    /\ [][\A h \in Hosts :
            es[h].tornDown =>
               /\ Len(updateC'[h]) <= Len(updateC[h])
               /\ dataW'[h] = dataW[h]]_vars

\* C17 witness: the local command server has changed a mode and is about to
\* send the HostUpdate on the attached session, which the session's workers
\* have torn down in between.
C17_SendOnTornDown ==
    /\ apc = "send"
    /\ css # Nil
    /\ es[css].tornDown

\* The users a snapshot marks as hosting.
HostingUsers(snap) == { u \in DOMAIN snap.Users : snap.Users[u].Hosting }

\* C18: the snapshot of every warp record has exactly one user with
\* Hosting = TRUE, the host's user, also when the host's own user is connected
\* as a shell client.
C18_OneHostingUser ==
    \A h \in DOMAIN warp :
       HostingUsers(State(warp[h])) = {hello[h].From.User}

\* C18 witness: the host's own user is connected as a shell client of the
\* warp, next to another user.
C18_HostUserIsClient ==
    \E h \in DOMAIN warp :
       /\ warp[h].host.sessions # EmptyMap
       /\ warp[h].shellClients # EmptyMap

\* C19: between the locked sections of Warp.handleClient, every user of the
\* relay's client table has at least one session in its session table.
C19_NoEmptySessionTable ==
    \A h \in DOMAIN warp : \A u \in DOMAIN warp[h].shellClients :
       warp[h].shellClients[u].sessions # EmptyMap

\* C19 witness: a user had two sessions; the clean-up of the first has run and
\* the record is left with the second.
C19_OneSessionLeft ==
    \E h \in DOMAIN warp :
       /\ pc["c1"] = "done"
       /\ "ua" \in DOMAIN warp[h].shellClients
       /\ DOMAIN warp[h].shellClients["ua"].sessions = {"t2"}

\* C20 as stated: a client session that Warp.handleClient has registered, and
\* whose context is not cancelled, is one of the sessions of its warp (those
\* that are sent host output and snapshots), also when it replaced an older
\* session with the same SessionToken and that session's handler has cleaned
\* up.
C20_ReplacingSessionStays ==
    \A c \in Clients :
       ( /\ pc[c] \in {"j1", "j2", "j3", "j4", "j5", "wait"}
         /\ ~ss[c].ctxDone )
       => c \in Sessions(warp[wref[c]])

\* C21 (as the code has it): no torn down session is registered in a session
\* table of a warp: a handler removes its session from the table before the
\* session is torn down.
C21_NoTornDownSessionRegistered ==
    \A h \in DOMAIN warp : \A c \in Sessions(warp[h]) : ~ss[c].tornDown

\* C21 witness: a session of a warp has been cancelled and its handler has not
\* cleaned up yet; another client's handler has finished and its session is
\* torn down.
C21_CancelledStillRegistered ==
    \E h \in DOMAIN warp :
       /\ \E c \in Sessions(warp[h]) : ss[c].ctxDone
       /\ \E d \in Clients : ss[d].tornDown

\* C21 as stated: no session whose context is cancelled or that is torn down
\* is registered in a session table of a warp.
C21_RegisteredSessionsLive ==
    \A h \in DOMAIN warp : \A c \in Sessions(warp[h]) :
       ~ss[c].ctxDone /\ ~ss[c].tornDown

\* C22: authorize with exactly one argument that names a user of the shadow
\* of the attached session ORs ShellWrite into the mode of that user and
\* leaves every other user as it was, then hands one HostUpdate to the
\* session, carrying the window size and the modes of all the users that are
\* not hosting, which on a live session is appended to updateC, and replies
\* with no error code; nothing else is written to updateC by the command.
C22_AuthorizeGrantsWrite ==
    [][ /\ ( /\ apc = "idle" /\ apc' # "idle"
             /\ cmd'.type = CmdTpAuthorize /\ Len(cmd'.args) = 1
             /\ css # Nil
             /\ cmd'.args[1] \in DOMAIN shadow[css].users )
           => /\ apc' = "send"
              /\ res'.code = ""
              /\ updateC' = updateC
              /\ DOMAIN shadow'[css].users = DOMAIN shadow[css].users
              /\ \A t \in DOMAIN shadow[css].users :
                   /\ shadow'[css].users[t].hosting
                        = shadow[css].users[t].hosting
                   /\ shadow'[css].users[t].mode
                        = IF t = cmd'.args[1]
                          THEN ModeOr(shadow[css].users[t].mode,
                                      ModeShellWrite)
                          ELSE shadow[css].users[t].mode
        /\ ( /\ apc = "send" /\ apc' # "send"
             /\ cmd.type = CmdTpAuthorize
             /\ ~es[css].tornDown /\ link[css] = "up" )
           => /\ res'.code = ""
              /\ shadow' = shadow
              /\ updateC' =
                   [updateC EXCEPT ![css] =
                      Append(@,
                        [Warp |-> WarpToken, From |-> HostHelloMsg(css).From,
                         WindowSize |-> shadow[css].windowSize,
                         Modes |->
                           [t \in { x \in DOMAIN shadow[css].users :
                                      ~shadow[css].users[x].hosting }
                              |-> shadow[css].users[t].mode]])]
        /\ ( /\ apc = "reply" /\ apc' = "idle"
             /\ cmd.type = CmdTpAuthorize )
           => /\ res'.code = res.code
              /\ updateC' = updateC
              /\ shadow' = shadow ]_vars

\* An authorize of ua, who could only read, was carried out while ub could
\* write: the update with the modes of both is on updateC and the reply holds
\* no error.
C22_Authorized ==
    /\ cmd = [type |-> CmdTpAuthorize, args |-> <<"ua">>]
    /\ apc = "idle"
    /\ res.code = "" /\ ~res.disconnected
    /\ css = "h1"
    /\ Len(updateC["h1"]) = 1
    /\ updateC["h1"][1].Modes =
         [t \in {"ua", "ub"} |-> DefaultHostMode]
    /\ res.state.Users["ua"].Mode = DefaultHostMode

\* C23: with a session attached, authorize with no argument or with more than
\* one replies user_token_required, and authorize with one token that is not
\* a user of the shadow replies user_unknown; from the command to its reply
\* the shadow, updateC and the session (its tornDown and cancelled flags
\* included) are unchanged, and nothing is sent.
C23_AuthorizeRejects ==
    [][ /\ ( /\ apc = "idle" /\ apc' # "idle"
             /\ cmd'.type = CmdTpAuthorize
             /\ css # Nil
             /\ \/ Len(cmd'.args) # 1
                \/ cmd'.args[1] \notin DOMAIN shadow[css].users )
           => /\ res'.code = IF Len(cmd'.args) # 1
                             THEN "user_token_required"
                             ELSE "user_unknown"
              /\ apc' = "reply"
              /\ shadow' = shadow /\ updateC' = updateC /\ es' = es
              /\ css' = css
        /\ ( /\ apc = "reply" /\ apc' # "reply"
             /\ cmd.type = CmdTpAuthorize
             /\ res.code \in {"user_token_required", "user_unknown"} )
           => /\ res'.code = res.code
              /\ apc' = "idle"
              /\ shadow' = shadow /\ updateC' = updateC /\ es' = es
              /\ css' = css ]_vars

\* An authorize of a token that is not a user of the shadow was rejected on a
\* session that is still attached and live, where ua could have been
\* authorized.
C23_Rejected ==
    /\ apc = "idle"
    /\ css = "h1" /\ ~es["h1"].tornDown /\ ~es["h1"].ctxDone
    /\ updateC["h1"] = <<>>
    /\ "ua" \in DOMAIN shadow["h1"].users
    /\ shadow["h1"].users["ua"].mode = ModeShellRead
    /\ cmd = [type |-> CmdTpAuthorize, args |-> <<"ux">>]
    /\ res.code = "user_unknown"
    /\ "ua" \in DOMAIN res.state.Users

C25_ReplyTellsAttachment ==
    [][ /\ ( apc = "reply" /\ apc' # "reply" /\ css = Nil )
           => /\ res'.disconnected
              /\ res'.state =
                   [Warp |-> WarpToken, WindowSize |-> 0, Users |-> EmptyMap]
              /\ res'.code = res.code
              /\ shadow' = shadow /\ updateC' = updateC
        /\ ( apc = "reply" /\ apc' # "reply" /\ css # Nil )
           => /\ ~res'.disconnected
              /\ res'.state.Warp = shadow[css].token
              /\ res'.state.WindowSize = shadow[css].windowSize
              /\ DOMAIN res'.state.Users = DOMAIN shadow[css].users
              /\ \A t \in DOMAIN shadow[css].users :
                   /\ res'.state.Users[t].Token = shadow[css].users[t].token
                   /\ res'.state.Users[t].Mode = shadow[css].users[t].mode
                   /\ res'.state.Users[t].Hosting
                        = shadow[css].users[t].hosting
              /\ res'.code = res.code
        /\ ( /\ apc = "idle" /\ apc' # "idle"
             /\ cmd'.type \in {CmdTpAuthorize, CmdTpRevoke}
             /\ css = Nil )
           => /\ res'.code = "disconnected"
              /\ apc' = "reply"
              /\ shadow' = shadow /\ updateC' = updateC /\ es' = es ]_vars

\* After the session was detached, an authorize of ua, a user of the shadow
\* of that session who can only read, was replied: disconnected, with the
\* warp token alone, and ua can still only read.
C25_RepliedDisconnected ==
    /\ apc = "idle"
    /\ css = Nil
    /\ cmd = [type |-> CmdTpAuthorize, args |-> <<"ua">>]
    /\ res.code = "disconnected"
    /\ res.disconnected
    /\ res.state.Warp = WarpToken /\ res.state.Users = EmptyMap
    /\ "ua" \in DOMAIN shadow["h1"].users
    /\ shadow["h1"].users["ua"].mode = ModeShellRead
    /\ updateC["h1"] = <<>>

\* C26 as stated: an authorize or a revoke that ends its send with no error
\* code has sent its HostUpdate on a session that was not torn down: the
\* update was appended to updateC, never dropped.
C26_SuccessMeansSent ==
    [][ ( apc = "send" /\ apc' # "send" /\ res'.code = "" )
        => /\ css # Nil
           /\ ~es[css].tornDown
           /\ Len(updateC'[css]) = Len(updateC[css]) + 1 ]_vars

\* C27: applying to a shadow the snapshot made of that same shadow changes
\* nothing: for every shadow a host or a shell client endpoint reaches, for
\* both roles and every order of the range over the users, Update with
\* ProtocolState of the shadow returns no error and leaves the shadow, and so
\* the snapshot made of it, as it was.
C27_OwnSnapshotIsNoOp ==
    \A c \in Conn :
       shadow[c] # NoWarpState =>
         \A hosting \in BOOLEAN :
            \A o \in Orders(DOMAIN shadow[c].users) :
               LET s == ProtocolState(shadow[c])
                   r == Update(shadow[c], s, o, hosting)
               IN  /\ ~r.err
                   /\ r.w = shadow[c]
                   /\ ProtocolState(r.w) = s

\* A shadow of a shell client with three users, one of them hosting and one
\* with ShellWrite, and a window size that was set by a snapshot: its own
\* snapshot is applied without a change.
C27_OwnSnapshotApplied ==
    /\ shadow["c1"] # NoWarpState
    /\ DOMAIN shadow["c1"].users = {"ua", "ub", HostUser}
    /\ shadow["c1"].users[HostUser].hosting
    /\ shadow["c1"].users["ub"].mode = DefaultHostMode
    /\ shadow["c1"].windowSize = 2
    /\ \E o \in Orders(DOMAIN shadow["c1"].users) :
         Update(shadow["c1"], ProtocolState(shadow["c1"]), o, FALSE)
           = [err |-> FALSE, w |-> shadow["c1"]]

\* C28 as stated: whatever snapshot a shell client applies to its shadow with
\* the shell-client role, when Update returns no error the shadow has the
\* users of the snapshot, each with the Hosting flag and the Mode the snapshot
\* gives it, whether the user was known before or not.
C28_ShellClientTakesSnapshot ==
    shadow["c1"] # NoWarpState =>
      \A s \in Snapshots : \A o \in Orders(DOMAIN s.Users) :
         LET r == Update(shadow["c1"], s, o, FALSE) IN
           ~r.err =>
             /\ DOMAIN r.w.users = DOMAIN s.Users
             /\ \A t \in DOMAIN s.Users :
                  /\ r.w.users[t].mode = s.Users[t].Mode
                  /\ r.w.users[t].hosting = s.Users[t].Hosting

\* C29: each chunk the relay reads from the host's dataC is handed to every
\* client session that is registered in the warp when rcvHostData takes the
\* sessions: each of them is written the chunk on its dataC, or its write
\* fails and it is cancelled, before the next chunk is read.  Every client
\* session has received the host's chunks in the host's order, without a gap
\* and without a repeat: a run of consecutive chunks that ends with the last
\* chunk read or, for a session that was torn down, that failed or that left
\* the warp, earlier.
C29_HostOutputInOrder ==
    /\ [](\A c \in Clients :
            /\ \A i \in 1..Len(clientDataC[c]) :
                 /\ clientDataC[c][i] \in 1..hostOut["h1"]
                 /\ i > 1 => clientDataC[c][i] = clientDataC[c][i - 1] + 1
            /\ \A h \in Hosts : c \in hsl[h] => hpc[h] = "fan")
    /\ [][(hsl' = hsl => clientDataC' = clientDataC) /\ \A h \in Hosts :
            /\ hostOut'[h] # hostOut[h]
               => /\ hostOut'[h] = hostOut[h] + 1
                  /\ hsl[h] = {}
                  /\ hsl'[h] = Sessions(warp[h])
                  /\ clientDataC' = clientDataC
            /\ hsl'[h] # hsl[h] /\ hostOut'[h] = hostOut[h]
               => \E c \in hsl[h] :
                     /\ hsl'[h] = hsl[h] \ {c}
                     /\ \/ /\ clientDataC' =
                                [clientDataC EXCEPT ![c] =
                                   Append(@, hostOut[h])]
                           /\ ss' = ss
                        \/ /\ clink[c] = "down" \/ ss[c].tornDown
                           /\ clientDataC' = clientDataC
                           /\ ss'[c].ctxDone ]_vars

\* Two chunks were fanned out to two registered clients: c1 received both in
\* order; the transport of c2 failed after the first, so the write of the
\* second failed, c2 was sent data_send_failed and was cancelled.
C29_FannedOut ==
    /\ hostOut["h1"] = 2
    /\ hpc["h1"] = "read"
    /\ clientDataC["c1"] = <<1, 2>>
    /\ clientDataC["c2"] = <<1>>
    /\ clink["c2"] = "down"
    /\ "data_send_failed" \in Range(errorC["c2"])
    /\ ss["c2"].ctxDone

\* C30 as stated: a client session that is cancelled after a failed write of
\* host output to its dataC, or after a failed read of its own dataC, and is
\* then cleaned up, goes alone: the step that cancels it cancels no other
\* session and leaves the warps and their mapping as they are, and its
\* clean-up takes that session, and no other, out of the sessions of the
\* warp, cancels nothing and leaves the mapping of the warp.
C30_OnlyThatSessionLeaves ==
    [][\A c \in Clients :
         /\ ( \/ dpc[c] = "read" /\ dpc'[c] = "exit"
              \/ \E h \in Hosts :
                    /\ c \in hsl[h] /\ c \notin hsl'[h]
                    /\ clientDataC' = clientDataC )
            => /\ \A d \in Conn \ {c} : ss'[d] = ss[d]
               /\ warps' = warps
               /\ warp' = warp
         /\ ( /\ pc[c] = "wait" /\ pc'[c] # "wait" /\ ~panicked'
              /\ \E e \in {"data_send_failed", "data_receive_failed"} :
                    e \in Range(errorC[c]) )
            => /\ ss' = ss
               /\ warps' = warps
               /\ Sessions(warp'[wref[c]]) = Sessions(warp[wref[c]]) \ {c}
       ]_vars

\* C31 as stated: when the dispatcher is done with a hello whose role is
\* neither host nor shell client, unsupported_role is on the errorC of its
\* session and no warp was touched.
C31_UnsupportedRoleReported ==
    \A c \in Conn :
       ( /\ hello[c].type \notin {"none", SsTpHost, SsTpShellClient}
         /\ pc[c] = "done" )
       => "unsupported_role" \in Range(errorC[c])

\* C32 as stated: at most one Error is written to the errorC of a relay
\* session, whichever of its tasks find failures.
C32_AtMostOneError ==
    \A c \in Conn : Len(errorC[c]) <= 1

\* C33: when the update consumer applies a host update, the warp takes the
\* update's WindowSize, and each user that is named in its Modes map and has
\* a record in the client table takes the mode given there.  Nothing else
\* changes: the other users keep their mode, no record is added for a user
\* that is named but unknown, the host's record (its mode, its sessions), the
\* sessions of every user, the other warps and the map of the warps are left
\* alone; with an empty Modes map every mode is kept.
C33_UpdateChangesSizeAndModes ==
    [][\A h \in Hosts :
         upc[h] = "decode" /\ upc'[h] = "u3"
         => \E u \in HostUpdates(h) :
              /\ ValidUpdate(warp[h], h, u)
              /\ warp'[h].windowSize = u.WindowSize
              /\ warp'[h].token = warp[h].token
              /\ warp'[h].host = warp[h].host
              /\ DOMAIN warp'[h].shellClients = DOMAIN warp[h].shellClients
              /\ \A x \in DOMAIN warp[h].shellClients :
                   /\ warp'[h].shellClients[x].token
                        = warp[h].shellClients[x].token
                   /\ warp'[h].shellClients[x].sessions
                        = warp[h].shellClients[x].sessions
                   /\ warp'[h].shellClients[x].mode
                        = IF x \in DOMAIN u.Modes THEN u.Modes[x]
                          ELSE warp[h].shellClients[x].mode
              /\ u.Modes = [x \in {} |-> 0]
                 => \A x \in DOMAIN warp[h].shellClients :
                      warp'[h].shellClients[x].mode
                        = warp[h].shellClients[x].mode
              /\ warp' = [warp EXCEPT ![h] = warp'[h]]
              /\ warps' = warps ]_vars

\* An update that names ua and ub was applied to a warp whose client table
\* holds ua only: ua took the mode given (it was ShellRead and Modes names
\* it once with ShellRead, once with both), ub got no record, the host kept
\* its mode.
C33_UpdateApplied ==
    /\ upc["h1"] = "u3"
    /\ DOMAIN warp["h1"].shellClients = {"ua"}
    /\ warp["h1"].shellClients["ua"].mode = 3
    /\ hostSet["h1"]["ua"] = 3
    /\ warp["h1"].windowSize = 2
    /\ warp["h1"].host.mode = DefaultHostMode

\* C34 as stated, for the host data producer: once the context of the host
\* session h1 is cancelled, the producer of that session leaves its loop (or
\* the daemon has died and every task with it).
C34_ProducerExits ==
    ss["h1"].ctxDone ~> (ppc["h1"] = "exit" \/ panicked)

\* C35 as stated: a client session whose data consumer is reading chunks has
\* its user's record in the client table of its warp, so that the mode lookup
\* of rcvClientData finds a record for any chunk that arrives.
C35_SenderHasRecord ==
    \A c \in Clients :
       dpc[c] = "read"
       => hello[c].From.User \in DOMAIN warp[wref[c]].shellClients

\* C36 as stated: a shell client whose hello passed the dispatcher's check
\* (the token was mapped, under the lock) finds the token still mapped when
\* the dispatcher reads the map again to hand the session to the warp.
C36_CheckedFindsWarp ==
    \A c \in Clients : pc[c] = "checked" => warps[hello[c].warp] # Nil

\* C37 as stated: when no host update and no snapshot is under way (the
\* queues of the host session are empty, no command and no update is being
\* handled), every client user has the same mode in the host's shadow and in
\* the relay's warp record.
C37_ShadowAgreesWhenQuiet ==
    ( /\ ~panicked
      /\ apc = "idle"
      /\ upc["h1"] = "decode"
      /\ updateC["h1"] = <<>>
      /\ snapQ["h1"] = <<>> )
    => \A u \in DOMAIN warp["h1"].shellClients :
          /\ u \in DOMAIN shadow["h1"].users
          /\ shadow["h1"].users[u].mode = warp["h1"].shellClients[u].mode

\* C38 as stated, for the updates not yet decoded by the relay: the
\* HostUpdate an authorize or a revoke publishes carries the window size the
\* host asserted last, that is the WindowSize of the update published just
\* before it on the same session (the update of a SIGWINCH, or an update of
\* an authorize or revoke, which carried the size asserted last).
C38_CommandKeepsWindowSize ==
    [][\A h \in Hosts :
         ( /\ apc = "send"
           /\ apc' = "idle"
           /\ css = h
           /\ updateC[h] # <<>>
           /\ Len(updateC'[h]) = Len(updateC[h]) + 1 )
         => updateC'[h][Len(updateC'[h])].WindowSize
              = updateC[h][Len(updateC[h])].WindowSize]_vars

\* C39 as stated: a revoke command that is answered user_unknown leaves the
\* shadow of the attached session as it was.
C39_FailedRevokeKeepsShadow ==
    [][( /\ apc = "idle"
         /\ apc' = "reply"
         /\ cmd'.type = CmdTpRevoke
         /\ res'.code = "user_unknown" )
       => shadow' = shadow]_vars

\* C40 as stated: once the context of the attached session is done (here the
\* root context is cancelled), TearDown of the session completes, whatever
\* WriteDataC is doing with the session mutex.
C40_TearDownCompletes ==
    rootDone ~> es["h1"].tornDown

====
